---------------------------- MODULE Spec2Model ----------------------------
(***************************************************************************)
(* Model of the `functions` library: normalization constants (Nlm), fully  *)
(* normalized associated Legendre functions (Plm) and inclination          *)
(* functions (Flmp).                                                       *)
(*                                                                         *)
(* Numbers.  C++ `int` values are TLA+ integers; `/` on ints is CDiv       *)
(* (truncation toward zero).  A C++ `double` is modelled as the exact real *)
(* it stands for, written as a surd (n/d)*sqrt(r) with r squarefree: every *)
(* value the Nlm and Plm constructors produce at a co-latitude with        *)
(* rational sine and cosine has this form.  Rounding is not modelled.      *)
(***************************************************************************)
EXTENDS Integers, Sequences, FiniteSets, TLC

(***************************************************************************)
(* Bounds of the model.                                                    *)
(***************************************************************************)
MaxL == 5

\* Largest maximum degree of a Plm engine
MaxLPlm == 3

\* Largest maximum degree of an Flmp engine
MaxLFlmp == 3

VARIABLES
    test,   \* the index enumeration of TEST(Plm, Idx) and its Flmp analogue
    nlm,    \* one Nlm object under construction / constructed
    plm,    \* one Plm object under construction / constructed
    flmp,   \* one Flmp object under construction / constructed
    ret,    \* value returned by the last getter call
    mem     \* the heap and the instances a caller constructs, copies, destroys

vars == <<test, nlm, plm, flmp, ret, mem>>

(***************************************************************************)
(* Integer helpers.                                                        *)
(***************************************************************************)
Abs(x) == IF x < 0 THEN -x ELSE x

Sign(x) == IF x < 0 THEN -1 ELSE IF x = 0 THEN 0 ELSE 1

\* C++ integer division: the quotient truncated toward zero.
CDiv(a, b) == Sign(a) * Sign(b) * (Abs(a) \div Abs(b))

\* C++ integer remainder: a - (a/b)*b, carries the sign of a.
CMod(a, b) == a - CDiv(a, b) * b

RECURSIVE GCD(_, _)
GCD(a, b) == IF b = 0 THEN a ELSE GCD(b, a % b)

\* The largest k (trying factors from k0 up) such that k*k divides x.
RECURSIVE SqPart(_, _)
SqPart(x, k0) ==
    IF k0 * k0 > x THEN 1
    ELSE IF x % (k0 * k0) = 0 THEN k0 * SqPart(x \div (k0 * k0), k0)
    ELSE SqPart(x, k0 + 1)

RECURSIVE Factorial(_)
Factorial(k) == IF k <= 0 THEN 1 ELSE k * Factorial(k - 1)

(***************************************************************************)
(* Exact reals: [n, d, r] stands for (n/d)*sqrt(r).                        *)
(***************************************************************************)
\* Content of a `new double[]` slot that was never written.
Uninit == [n |-> 0, d |-> 0, r |-> 0]

SNorm(n, d, r) ==
    IF n = 0 \/ r = 0 THEN [n |-> 0, d |-> 1, r |-> 1]
    ELSE LET s  == SqPart(r, 2)
             nn == n * s
             g  == GCD(Abs(nn), d)
         IN  [n |-> nn \div g, d |-> d \div g, r |-> r \div (s * s)]

SInt(k) == SNorm(k, 1, 1)

\* sqrt(a/b) for integers a >= 0, b > 0.
SSqrt(a, b) == SNorm(1, b, a * b)

SMul(x, y) == SNorm(x.n * y.n, x.d * y.d, x.r * y.r)

\* x / y for y # 0.
SDiv(x, y) == SNorm(x.n * Sign(y.n) * y.d, x.d * Abs(y.n) * y.r, x.r * y.r)

SNeg(x) == [x EXCEPT !.n = -x.n]

\* x + y; the two summands of every sum the library forms share a radicand.
SAdd(x, y) ==
    CASE x.n = 0 -> y
      [] y.n = 0 -> x
      [] x.n # 0 /\ y.n # 0 /\ x.r = y.r ->
            SNorm(x.n * y.d + y.n * x.d, x.d * y.d, x.r)

SSub(x, y) == SAdd(x, SNeg(y))

\* The square of x as a pair <<numerator, denominator>> in lowest terms.
SSquare(x) ==
    LET a == x.n * x.n * x.r
        b == x.d * x.d
        g == GCD(a, b)
    IN  <<a \div g, b \div g>>

(***************************************************************************)
(* Packed index functions.                                                 *)
(***************************************************************************)
lm_idx_wrong(l, m) == CDiv(l * (l - 1), 2) + m

\* Nlm::lm_idx, Plm::lm_idx
lm_idx(l, m) == CDiv(l * (l + 1), 2) + m

\* Size of the packed triangular arrays: ((l_max + 1) * (l_max + 2)) / 2
tri_size(l_max) == CDiv((l_max + 1) * (l_max + 2), 2)


\* Flmp::l_idx: offset at which degree l starts in the packed (l,m,p) storage
l_idx(l) == CDiv(l * (l + 1) * (2 * l + 1), 6)

lmp_idx_wrong(l, m, p) == CDiv((l + 1) * (l * (2 * l + 1)), 6) + m * l + p

\* Flmp::lmp_idx
lmp_idx(l, m, p) == CDiv((l + 1) * (l * (2 * l + 1)), 6) + m * (l + 1) + p

lmk_idx_wrong(l, m, k) == lmp_idx(l, m, CDiv(l + k, 2))

\* Flmp::lmk_idx
lmk_idx(l, m, k) == lmp_idx(l, m, CDiv(l - k, 2))

(***************************************************************************)
(* Row-major enumeration of the index functions.  TEST(Plm, Idx) walks     *)
(* l = 0..l_max, m = 0..l and compares lm_idx(l, m) with a running counter *)
(* i++; the same walk over (l, m, p), p = 0..l, is applied to lmp_idx.     *)
(* test.got is the sequence of indices returned so far.                    *)
(***************************************************************************)
TestIdle == [kind |-> "none", l_max |-> 0, l |-> 0, m |-> 0, p |-> 0,
             i |-> 0, got |-> <<>>]

NlmIdle == [pc |-> "none", l_max |-> 0, l |-> 0, m |-> 0, arr |-> <<>>]

\* The null pointer (an array of no entries)
Null == <<>>

PlmIdle == [pc |-> "none"]

FlmpIdle == [pc |-> "none"]

RetNone == [fn |-> "none", l |-> 0, m |-> 0, k |-> 0, val |-> Uninit,
            reads |-> {}]

MemIdle == [cls |-> "none"]

InitIdx ==
    /\ \E L \in 0..MaxL, kd \in {"lm", "lmp"} :
          test = [kind |-> kd, l_max |-> L, l |-> 0, m |-> 0, p |-> 0,
                  i |-> 0, got |-> <<>>]
    /\ nlm = NlmIdle
    /\ plm = PlmIdle
    /\ flmp = FlmpIdle
    /\ ret = RetNone
    /\ mem = MemIdle

\* One pass of the inner loop body of TEST(Plm, Idx): lm_idx(l, m) vs i++
TestLmStep ==
    /\ test.kind = "lm"
    /\ test.l <= test.l_max
    /\ test' = [test EXCEPT
                  !.got = Append(@, lm_idx(test.l, test.m)),
                  !.i = @ + 1,
                  !.m = IF test.m < test.l THEN @ + 1 ELSE 0,
                  !.l = IF test.m < test.l THEN @ ELSE @ + 1]
    /\ UNCHANGED <<nlm, plm, flmp, ret, mem>>

\* The same walk over l = 0..l_max, m = 0..l, p = 0..l applied to lmp_idx
TestLmpStep ==
    /\ test.kind = "lmp"
    /\ test.l <= test.l_max
    /\ LET lastp == test.p = test.l
           lastm == test.m = test.l
       IN  test' = [test EXCEPT
                      !.got = Append(@, lmp_idx(test.l, test.m, test.p)),
                      !.i = @ + 1,
                      !.p = IF lastp THEN 0 ELSE @ + 1,
                      !.m = IF ~lastp THEN @ ELSE IF lastm THEN 0 ELSE @ + 1,
                      !.l = IF lastp /\ lastm THEN @ + 1 ELSE @]
    /\ UNCHANGED <<nlm, plm, flmp, ret, mem>>

NextIdx == TestLmStep \/ TestLmpStep

SpecIdx == InitIdx /\ [][NextIdx]_vars

TestDone == test.kind # "none" /\ test.l > test.l_max

\* C1: enumerating (l,m), l = 0..L, m = 0..l, in row-major order, lm_idx
\* returns 0,1,2,... in that order (the j-th call returns j-1), and the
\* complete walk returns exactly (L+1)(L+2)/2 values: no gap, no repeat.
C1_LmIdxBijection ==
    test.kind = "lm" =>
        /\ \A j \in 1..Len(test.got) : test.got[j] = j - 1
        /\ TestDone => Len(test.got) = ((test.l_max + 1) * (test.l_max + 2)) \div 2

C1_Witness ==
    test.kind = "lm" /\ TestDone /\ test.l_max >= 3 /\ Len(test.got) = 10

\* C2: enumerating (l,m,p), l = 0..L, m = 0..l, p = 0..l, in row-major
\* order, lmp_idx returns 0,1,2,... in that order, the complete walk
\* returns exactly l_idx(L+1) values, and lmp_idx(l,0,0) = l_idx(l) for
\* every degree l.
C2_LmpIdxBijection ==
    test.kind = "lmp" =>
        /\ \A j \in 1..Len(test.got) : test.got[j] = j - 1
        /\ TestDone => Len(test.got) = l_idx(test.l_max + 1)
        /\ \A l \in 0..test.l_max : lmp_idx(l, 0, 0) = l_idx(l)

C2_Witness ==
    test.kind = "lmp" /\ TestDone /\ test.l_max >= 2 /\ Len(test.got) = 14


(***************************************************************************)
(* Nlm: the normalization table.  nlm.arr is the owned array _Nlm (index   *)
(* 0..size-1); nlm.pc, nlm.l, nlm.m are the constructor's position.        *)
(***************************************************************************)
InitNlm ==
    /\ \E L \in 0..MaxL :
          nlm = [pc |-> "m0", l_max |-> L, l |-> 0, m |-> 0,
                 arr |-> [i \in 0..(tri_size(L) - 1) |-> Uninit]]
    /\ test = TestIdle
    /\ plm = PlmIdle
    /\ flmp = FlmpIdle
    /\ ret = RetNone
    /\ mem = MemIdle

Nlm_m0_wrong(l) == SSqrt(2 * l, 1)

\* sqrt(2 * l + 1)
Nlm_m0(l) == SSqrt(2 * l + 1, 1)

Nlm_rec_wrong(prev, l, m) == SMul(prev, SSqrt(1, (l - m + 1) * (l + m + 1)))

\* _Nlm[lm_idx(l, m - 1)] * sqrt(1.0 / ((l - m + 1) * (l + m)))
Nlm_rec(prev, l, m) == SMul(prev, SSqrt(1, (l - m + 1) * (l + m)))

Nlm_adj_wrong(x) == x

\* _Nlm[lm_idx(l, m)] *= sqrt(2)
Nlm_adj(x) == SMul(x, SSqrt(2, 1))

\* First loop: for (l = 0; l <= l_max; l++) _Nlm[lm_idx(l, 0)] = sqrt(2l+1)
NlmStepM0 ==
    /\ nlm.pc = "m0"
    /\ nlm' = [nlm EXCEPT
                 !.arr = [@ EXCEPT ![lm_idx(nlm.l, 0)] = Nlm_m0(nlm.l)],
                 !.l = IF nlm.l < nlm.l_max THEN @ + 1 ELSE 1,
                 !.m = IF nlm.l < nlm.l_max THEN @ ELSE 1,
                 !.pc = IF nlm.l < nlm.l_max THEN "m0"
                        ELSE IF nlm.l_max >= 1 THEN "rec" ELSE "done"]
    /\ UNCHANGED <<test, plm, flmp, ret, mem>>

\* Second loop nest: for (m = 1..l_max) for (l = m..l_max) recursion in m
NlmStepRec ==
    /\ nlm.pc = "rec"
    /\ LET i    == lm_idx(nlm.l, nlm.m)
           prev == nlm.arr[lm_idx(nlm.l, nlm.m - 1)]
           last == nlm.l = nlm.l_max /\ nlm.m = nlm.l_max
       IN  nlm' = [nlm EXCEPT
                     !.arr = [@ EXCEPT ![i] = Nlm_rec(prev, nlm.l, nlm.m)],
                     !.l = IF last THEN 1
                           ELSE IF nlm.l < nlm.l_max THEN @ + 1 ELSE nlm.m + 1,
                     !.m = IF last THEN 1
                           ELSE IF nlm.l < nlm.l_max THEN @ ELSE @ + 1,
                     !.pc = IF last THEN "adj" ELSE "rec"]
    /\ UNCHANGED <<test, plm, flmp, ret, mem>>

\* Third loop nest: for (m = 1..l_max) for (l = m..l_max) _Nlm[..] *= sqrt(2)
NlmStepAdj ==
    /\ nlm.pc = "adj"
    /\ LET i    == lm_idx(nlm.l, nlm.m)
           last == nlm.l = nlm.l_max /\ nlm.m = nlm.l_max
       IN  nlm' = [nlm EXCEPT
                     !.arr = [@ EXCEPT ![i] = Nlm_adj(nlm.arr[i])],
                     !.l = IF last THEN @
                           ELSE IF nlm.l < nlm.l_max THEN @ + 1 ELSE nlm.m + 1,
                     !.m = IF last THEN @
                           ELSE IF nlm.l < nlm.l_max THEN @ ELSE @ + 1,
                     !.pc = IF last THEN "done" ELSE "adj"]
    /\ UNCHANGED <<test, plm, flmp, ret, mem>>

\* Nlm::get_Nlm
get_Nlm(l, m) == nlm.arr[lm_idx(l, m)]

\* A caller reads one entry of the constructed table (0 <= m <= l <= l_max).
CallGetNlm ==
    /\ nlm.pc = "done"
    /\ \E l \in 0..nlm.l_max : \E m \in 0..l :
          ret' = [fn |-> "get_Nlm", l |-> l, m |-> m, k |-> 0,
                  val |-> get_Nlm(l, m),
                  reads |-> {<<"_Nlm", lm_idx(l, m)>>}]
    /\ UNCHANGED <<test, nlm, plm, flmp, mem>>

NextNlm == NlmStepM0 \/ NlmStepRec \/ NlmStepAdj \/ CallGetNlm

SpecNlm == InitNlm /\ [][NextNlm]_vars

\* (2 - delta_{0m}) as the table's documentation and the unit test write it
TwoMinusDelta(m) == IF m = 0 THEN 1 ELSE 2

\* x = sqrt(num/den), decided on the squares: x > 0 and x^2 * den = num
IsSqrtOf(x, num, den) ==
    /\ x.n > 0
    /\ SSquare(x)[1] * den = SSquare(x)[2] * num

RECURSIVE factorial(_)
factorial(k) == IF k = 1 THEN 1 ELSE k * factorial(k - 1)

C8_AsStated ==
    nlm.pc = "done" =>
        \A l \in 0..nlm.l_max :
            /\ get_Nlm(l, 0) = SSqrt(2 * l + 1, 1)
            /\ \A m \in 1..l :
                  get_Nlm(l, m) =
                      SMul(SMul(get_Nlm(l, m - 1),
                                SSqrt(1, (l - m + 1) * (l + m))),
                           SSqrt(2, 1))

\* C8 amended: entry(l,0) = sqrt(2l+1); the factor sqrt(2) appears in the
\* step 0 -> 1 only: entry(l,1) = entry(l,0) * sqrt(1/(l(l+1))) * sqrt(2),
\* and entry(l,m) = entry(l,m-1) * sqrt(1/((l-m+1)(l+m))) for 2 <= m <= l.
C8_NlmRecursionInvariant ==
    nlm.pc = "done" =>
        \A l \in 0..nlm.l_max :
            /\ get_Nlm(l, 0) = SSqrt(2 * l + 1, 1)
            /\ \A m \in 1..l :
                  get_Nlm(l, m) =
                      SMul(SMul(get_Nlm(l, m - 1),
                                SSqrt(1, (l - m + 1) * (l + m))),
                           IF m = 1 THEN SSqrt(2, 1) ELSE SInt(1))

C8_Witness ==
    /\ nlm.pc = "done" /\ nlm.l_max >= 2
    /\ get_Nlm(2, 1) = SMul(get_Nlm(2, 0), SSqrt(2, 6))
    /\ get_Nlm(2, 2) = SMul(get_Nlm(2, 1), SSqrt(1, 4))


(***************************************************************************)
(* Plm: the Legendre engine.  plm.P, plm.dP, plm.ddP are the owned arrays  *)
(* _Plm, _dPlm, _ddPlm (Null when not allocated); plm.a, plm.b, plm.f are  *)
(* the constructor's local arrays; plm.u, plm.t are sin(theta) and         *)
(* cos(theta); plm.pc, plm.l, plm.m are the constructor's position.  The   *)
(* member _Nlm is the variable nlm, built first by the member initializer  *)
(* _Nlm(Nlm(l_max)).                                                       *)
(***************************************************************************)
\* Co-latitudes with rational <<sin, cos>>: 0, pi/2, atan(3/4), pi - atan(4/3)
Thetas == { <<SInt(0), SInt(1)>>, <<SInt(1), SInt(0)>>,
            <<SNorm(3, 5, 1), SNorm(4, 5, 1)>>,
            <<SNorm(4, 5, 1), SNorm(-3, 5, 1)>> }

NewArray(size) == [i \in 0..(size - 1) |-> Uninit]

\* Per slot of a fresh array, the number of assignments made to it so far
NoWrites(size) == [i \in 0..(size - 1) |-> 0]

\* Plm(l_max, theta, derivatives, second_derivatives): state on entry, with
\* _Plm, a and b allocated.  Derivatives divide by sin(theta): a caller asks
\* for them only away from the poles.
InitPlm ==
    /\ \E L \in 0..MaxLPlm, th \in Thetas, d \in BOOLEAN, dd \in BOOLEAN :
          /\ d => th[1].n # 0
          /\ plm = [pc |-> "ab", l_max |-> L, u |-> th[1], t |-> th[2],
                    derivatives |-> d, second_derivatives |-> dd,
                    P |-> NewArray(tri_size(L)), dP |-> Null, ddP |-> Null,
                    wP |-> NoWrites(tri_size(L)), wdP |-> Null,
                    wddP |-> Null,
                    a |-> NewArray(tri_size(L)), b |-> NewArray(tri_size(L)),
                    f |-> Null, l |-> 1, m |-> 0]
          /\ nlm = [pc |-> "m0", l_max |-> L, l |-> 0, m |-> 0,
                    arr |-> NewArray(tri_size(L))]
    /\ test = TestIdle
    /\ flmp = FlmpIdle
    /\ ret = RetNone
    /\ mem = MemIdle

\* sqrt((2 * l - 1.0) * (2 * l + 1) / ((l - m) * (l + m)))
Plm_a(l, m) == SSqrt((2 * l - 1) * (2 * l + 1), (l - m) * (l + m))

\* l - m != 1 ? sqrt(((2l + 1.0)(l + m - 1)(l - m - 1)) / ((l - m)(l + m)(2l - 3))) : 0
Plm_b(l, m) ==
    IF l - m # 1
    THEN SSqrt((2 * l + 1) * (l + m - 1) * (l - m - 1),
               (l - m) * (l + m) * (2 * l - 3))
    ELSE SInt(0)

\* sqrt((l * l - m * m) * (2 * l + 1) / (2 * l - 1.0))
\* (at l = 0 the radicand is 0 / -1.0 = -0.0, whose square root is zero)
Plm_f(l, m) ==
    IF l = 0 THEN SInt(0)
    ELSE SSqrt((l * l - m * m) * (2 * l + 1), 2 * l - 1)

\* Next pair of `for (l..) for (m = 0; m < l; m++)`
NextBelowDiag(l, m) == IF m + 1 < l THEN <<l, m + 1>> ELSE <<l + 1, 0>>

\* Next pair of `for (l..) for (m = 0; m <= l; m++)`
NextRowMajor(l, m) == IF m < l THEN <<l, m + 1>> ELSE <<l + 1, 0>>

\* The column loop with one degree too many
NextColumn_wrong(l, m, L) == IF l <= L THEN <<l + 1, m>> ELSE <<m + 2, m + 1>>

\* Next pair of `for (m..) for (l = m + 1; l <= l_max; l++)`
NextColumn(l, m, L) == IF l < L THEN <<l + 1, m>> ELSE <<m + 2, m + 1>>

PlmAt(pc, l, m) == [plm EXCEPT !.pc = pc, !.l = l, !.m = m]

\* Coefficient loop: a[lm_idx(l, m)], b[lm_idx(l, m)] for 0 <= m < l <= l_max
PlmStepAB ==
    /\ nlm.pc = "done" /\ plm.pc = "ab"
    /\ LET l == plm.l  m == plm.m  nx == NextBelowDiag(plm.l, plm.m)
       IN  plm' = IF l <= plm.l_max
                  THEN [PlmAt("ab", nx[1], nx[2]) EXCEPT
                          !.a = [@ EXCEPT ![lm_idx(l, m)] = Plm_a(l, m)],
                          !.b = [@ EXCEPT ![lm_idx(l, m)] = Plm_b(l, m)]]
                  ELSE PlmAt("seed", 0, 0)
    /\ UNCHANGED <<test, nlm, flmp, ret, mem>>

\* The seed step without its writes
PlmStepSeed_wrong ==
    /\ plm.pc = "seed"
    /\ plm' = PlmAt("sect", 2, 2)
    /\ UNCHANGED <<test, nlm, flmp, ret, mem>>

\* _Plm[0] = 1; if (l_max > 0) _Plm[lm_idx(1, 1)] = sqrt(3) * u
\* (wP, wdP, wddP count the assignments made to each entry of _Plm, _dPlm,
\* _ddPlm)
PlmStepSeed ==
    /\ plm.pc = "seed"
    /\ LET P0 == [plm.P EXCEPT ![0] = SInt(1)]
           P1 == IF plm.l_max > 0
                 THEN [P0 EXCEPT ![lm_idx(1, 1)] = SMul(SSqrt(3, 1), plm.u)]
                 ELSE P0
           w0 == [plm.wP EXCEPT ![0] = @ + 1]
           w1 == IF plm.l_max > 0
                 THEN [w0 EXCEPT ![lm_idx(1, 1)] = @ + 1]
                 ELSE w0
       IN  plm' = [PlmAt("sect", 2, 2) EXCEPT !.P = P1, !.wP = w1]
    /\ UNCHANGED <<test, nlm, flmp, ret, mem>>

\* The sectorial loop storing into the entry it reads
PlmStepSect_wrong ==
    /\ plm.pc = "sect"
    /\ LET l == plm.l
       IN  plm' = IF l <= plm.l_max
                  THEN [PlmAt("sect", l + 1, l + 1) EXCEPT
                          !.wP = [@ EXCEPT ![lm_idx(l - 1, l - 1)] = @ + 1],
                          !.P = [@ EXCEPT ![lm_idx(l - 1, l - 1)] =
                                   SMul(SMul(SSqrt(2 * l + 1, 2 * l), plm.u),
                                        plm.P[lm_idx(l - 1, l - 1)])]]
                  ELSE PlmAt("col", 1, 0)
    /\ UNCHANGED <<test, nlm, flmp, ret, mem>>

\* _Plm[lm_idx(l, l)] = sqrt((2l + 1.0) / (2l)) * u * _Plm[lm_idx(l-1, l-1)]
PlmStepSect ==
    /\ plm.pc = "sect"
    /\ LET l == plm.l
       IN  plm' = IF l <= plm.l_max
                  THEN [PlmAt("sect", l + 1, l + 1) EXCEPT
                          !.wP = [@ EXCEPT ![lm_idx(l, l)] = @ + 1],
                          !.P = [@ EXCEPT ![lm_idx(l, l)] =
                                   SMul(SMul(SSqrt(2 * l + 1, 2 * l), plm.u),
                                        plm.P[lm_idx(l - 1, l - 1)])]]
                  ELSE PlmAt("col", 1, 0)
    /\ UNCHANGED <<test, nlm, flmp, ret, mem>>

\* Column pass; leaving it runs delete[] a; delete[] b and, with derivatives,
\* allocates _dPlm and f.
PlmStepCol ==
    /\ plm.pc = "col"
    /\ LET l == plm.l  m == plm.m  nx == NextColumn(plm.l, plm.m, plm.l_max)
           first == SMul(SMul(plm.a[lm_idx(l, m)], plm.t),
                         plm.P[lm_idx(l - 1, m)])
           val == IF l = m + 1 THEN first
                  ELSE SSub(first, SMul(plm.b[lm_idx(l, m)],
                                        plm.P[lm_idx(l - 2, m)]))
       IN  plm' = IF m < plm.l_max
                  THEN [PlmAt("col", nx[1], nx[2]) EXCEPT
                          !.wP = [@ EXCEPT ![lm_idx(l, m)] = @ + 1],
                          !.P = [@ EXCEPT ![lm_idx(l, m)] = val]]
                  ELSE IF plm.derivatives
                  THEN [PlmAt("f", 0, 0) EXCEPT
                          !.a = Null, !.b = Null,
                          !.dP = NewArray(tri_size(plm.l_max)),
                          !.wdP = NoWrites(tri_size(plm.l_max)),
                          !.f = NewArray(tri_size(plm.l_max))]
                  ELSE [PlmAt("done", 0, 0) EXCEPT
                          !.a = Null, !.b = Null, !.dP = Null]
    /\ UNCHANGED <<test, nlm, flmp, ret, mem>>

\* f[lm_idx(l, m)] for 0 <= m <= l <= l_max
PlmStepF ==
    /\ plm.pc = "f"
    /\ LET l == plm.l  m == plm.m  nx == NextRowMajor(plm.l, plm.m)
       IN  plm' = IF l <= plm.l_max
                  THEN [PlmAt("f", nx[1], nx[2]) EXCEPT
                          !.f = [@ EXCEPT ![lm_idx(l, m)] = Plm_f(l, m)]]
                  ELSE PlmAt("dsect", 0, 0)
    /\ UNCHANGED <<test, nlm, flmp, ret, mem>>

\* m * t / u * _Plm[lm_idx(m, m)]
Plm_dsect(m, t, u, Pmm) == SMul(SDiv(SMul(SInt(m), t), u), Pmm)

\* 1.0 / u * (l * t * _Plm[lm_idx(l, m)] - f[lm_idx(l, m)] * _Plm[lm_idx(l-1, m)])
Plm_dsub(l, t, u, flm, Plm_, Pl1m) ==
    SMul(SDiv(SInt(1), u),
         SSub(SMul(SMul(SInt(l), t), Plm_), SMul(flm, Pl1m)))

\* (m - 1) * t / u * _dPlm[lm_idx(m, m)] - m * _Plm[lm_idx(m, m)]
Plm_ddsect(m, t, u, dPmm, Pmm) ==
    SSub(SMul(SDiv(SMul(SInt(m - 1), t), u), dPmm), SMul(SInt(m), Pmm))

\* 1.0 / u * ((l - 1) * t * _dPlm[lm_idx(l, m)] - f[lm_idx(l, m)] *
\* _dPlm[lm_idx(l - 1, m)]) - l * _Plm[lm_idx(l, m)]
Plm_ddsub(l, t, u, flm, dPlm_, dPl1m, Plm_) ==
    SSub(SMul(SDiv(SInt(1), u),
              SSub(SMul(SMul(SInt(l - 1), t), dPlm_), SMul(flm, dPl1m))),
         SMul(SInt(l), Plm_))

\* Sectorial first derivatives, m = 0..l_max
PlmStepDSect ==
    /\ plm.pc = "dsect"
    /\ LET m == plm.m
       IN  plm' = IF m <= plm.l_max
                  THEN [PlmAt("dsect", m + 1, m + 1) EXCEPT
                          !.wdP = [@ EXCEPT ![lm_idx(m, m)] = @ + 1],
                          !.dP = [@ EXCEPT ![lm_idx(m, m)] =
                                    Plm_dsect(m, plm.t, plm.u,
                                              plm.P[lm_idx(m, m)])]]
                  ELSE PlmAt("dsub", 1, 0)
    /\ UNCHANGED <<test, nlm, flmp, ret, mem>>

\* The same loop, but leaving it never allocates _ddPlm
PlmStepDSub_wrong ==
    /\ plm.pc = "dsub"
    /\ LET l == plm.l  m == plm.m  nx == NextBelowDiag(plm.l, plm.m)
       IN  plm' = IF l <= plm.l_max
                  THEN [PlmAt("dsub", nx[1], nx[2]) EXCEPT
                          !.wdP = [@ EXCEPT ![lm_idx(l, m)] = @ + 1],
                          !.dP = [@ EXCEPT ![lm_idx(l, m)] =
                                    Plm_dsub(l, plm.t, plm.u,
                                             plm.f[lm_idx(l, m)],
                                             plm.P[lm_idx(l, m)],
                                             plm.P[lm_idx(l - 1, m)])]]
                  ELSE [PlmAt("done", 0, 0) EXCEPT !.ddP = Null, !.f = Null]
    /\ UNCHANGED <<test, nlm, flmp, ret, mem>>

\* First derivatives below the diagonal; leaving the loop either allocates
\* _ddPlm or sets it to nullptr and runs delete[] f.
PlmStepDSub ==
    /\ plm.pc = "dsub"
    /\ LET l == plm.l  m == plm.m  nx == NextBelowDiag(plm.l, plm.m)
       IN  plm' = IF l <= plm.l_max
                  THEN [PlmAt("dsub", nx[1], nx[2]) EXCEPT
                          !.wdP = [@ EXCEPT ![lm_idx(l, m)] = @ + 1],
                          !.dP = [@ EXCEPT ![lm_idx(l, m)] =
                                    Plm_dsub(l, plm.t, plm.u,
                                             plm.f[lm_idx(l, m)],
                                             plm.P[lm_idx(l, m)],
                                             plm.P[lm_idx(l - 1, m)])]]
                  ELSE IF plm.second_derivatives
                  THEN [PlmAt("ddsect", 0, 0) EXCEPT
                          !.ddP = NewArray(tri_size(plm.l_max)),
                          !.wddP = NoWrites(tri_size(plm.l_max))]
                  ELSE [PlmAt("done", 0, 0) EXCEPT !.ddP = Null, !.f = Null]
    /\ UNCHANGED <<test, nlm, flmp, ret, mem>>

\* Sectorial second derivatives, m = 0..l_max
PlmStepDDSect ==
    /\ plm.pc = "ddsect"
    /\ LET m == plm.m
       IN  plm' = IF m <= plm.l_max
                  THEN [PlmAt("ddsect", m + 1, m + 1) EXCEPT
                          !.wddP = [@ EXCEPT ![lm_idx(m, m)] = @ + 1],
                          !.ddP = [@ EXCEPT ![lm_idx(m, m)] =
                                     Plm_ddsect(m, plm.t, plm.u,
                                                plm.dP[lm_idx(m, m)],
                                                plm.P[lm_idx(m, m)])]]
                  ELSE PlmAt("ddsub", 1, 0)
    /\ UNCHANGED <<test, nlm, flmp, ret, mem>>

\* Second derivatives below the diagonal; leaving the loop runs delete[] f.
PlmStepDDSub ==
    /\ plm.pc = "ddsub"
    /\ LET l == plm.l  m == plm.m  nx == NextBelowDiag(plm.l, plm.m)
       IN  plm' = IF l <= plm.l_max
                  THEN [PlmAt("ddsub", nx[1], nx[2]) EXCEPT
                          !.wddP = [@ EXCEPT ![lm_idx(l, m)] = @ + 1],
                          !.ddP = [@ EXCEPT ![lm_idx(l, m)] =
                                     Plm_ddsub(l, plm.t, plm.u,
                                               plm.f[lm_idx(l, m)],
                                               plm.dP[lm_idx(l, m)],
                                               plm.dP[lm_idx(l - 1, m)],
                                               plm.P[lm_idx(l, m)])]]
                  ELSE [PlmAt("done", 0, 0) EXCEPT !.f = Null]
    /\ UNCHANGED <<test, nlm, flmp, ret, mem>>

Unnormalize_wrong(x, N) == SMul(x, N)

\* bar / _Nlm.get_Nlm(l, m)
Unnormalize(x, N) == SDiv(x, N)

\* Plm::get_Plm_bar, get_Plm, get_dPlm_bar, get_dPlm, get_ddPlm_bar, get_ddPlm
get_Plm_bar(l, m) == plm.P[lm_idx(l, m)]

get_Plm_wrong(l, m) == plm.P[lm_idx(l, m)]

get_Plm(l, m) == Unnormalize(plm.P[lm_idx(l, m)], get_Nlm(l, m))

get_dPlm_bar(l, m) == plm.dP[lm_idx(l, m)]

get_dPlm(l, m) == Unnormalize(plm.dP[lm_idx(l, m)], get_Nlm(l, m))

get_ddPlm_bar(l, m) == plm.ddP[lm_idx(l, m)]

get_ddPlm(l, m) == Unnormalize(plm.ddP[lm_idx(l, m)], get_Nlm(l, m))

\* The getters a caller may use on this engine: the derivative getters only
\* when the corresponding array was computed.
PlmGetters ==
    {"get_Plm_bar", "get_Plm"}
    \cup (IF plm.dP # Null THEN {"get_dPlm_bar", "get_dPlm"} ELSE {})
    \cup (IF plm.ddP # Null THEN {"get_ddPlm_bar", "get_ddPlm"} ELSE {})

PlmGet(fn, l, m) ==
    CASE fn = "get_Plm_bar"   -> get_Plm_bar(l, m)
      [] fn = "get_Plm"       -> get_Plm(l, m)
      [] fn = "get_dPlm_bar"  -> get_dPlm_bar(l, m)
      [] fn = "get_dPlm"      -> get_dPlm(l, m)
      [] fn = "get_ddPlm_bar" -> get_ddPlm_bar(l, m)
      [] fn = "get_ddPlm"     -> get_ddPlm(l, m)

\* The array a Plm getter reads
PlmArrayOf(fn) ==
    CASE fn \in {"get_Plm_bar", "get_Plm"}     -> "_Plm"
      [] fn \in {"get_dPlm_bar", "get_dPlm"}   -> "_dPlm"
      [] fn \in {"get_ddPlm_bar", "get_ddPlm"} -> "_ddPlm"

\* A caller reads one value of the constructed engine (0 <= m <= l <= l_max).
CallGetPlm ==
    /\ plm.pc = "done"
    /\ \E fn \in PlmGetters : \E l \in 0..plm.l_max : \E m \in 0..l :
          ret' = [fn |-> fn, l |-> l, m |-> m, k |-> 0,
                  val |-> PlmGet(fn, l, m),
                  reads |-> {<<PlmArrayOf(fn), lm_idx(l, m)>>}
                            \cup (IF fn \in {"get_Plm", "get_dPlm", "get_ddPlm"}
                                  THEN {<<"_Nlm", lm_idx(l, m)>>} ELSE {})]
    /\ UNCHANGED <<test, nlm, plm, flmp, mem>>

NextPlm ==
    \/ NlmStepM0 \/ NlmStepRec \/ NlmStepAdj
    \/ PlmStepAB \/ PlmStepSeed \/ PlmStepSect \/ PlmStepCol
    \/ PlmStepF \/ PlmStepDSect \/ PlmStepDSub
    \/ PlmStepDDSect \/ PlmStepDDSub
    \/ CallGetPlm

SpecPlm == InitPlm /\ [][NextPlm]_vars

PlmPairs == {lm \in (0..plm.l_max) \X (0..plm.l_max) : lm[2] <= lm[1]}

\* C9: on a constructed engine, for every valid (l,m), the unnormalized
\* getter times the table entry gives back the normalized getter:
\* get_Plm * get_Nlm = get_Plm_bar, and the same for get_dPlm and get_ddPlm
\* when the derivative arrays were computed.
C9_UnnormalizedTimesNlm ==
    plm.pc = "done" =>
        \A lm \in PlmPairs :
            LET l == lm[1]  m == lm[2]
            IN  /\ SMul(get_Plm(l, m), get_Nlm(l, m)) = get_Plm_bar(l, m)
                /\ plm.dP # Null =>
                      SMul(get_dPlm(l, m), get_Nlm(l, m)) = get_dPlm_bar(l, m)
                /\ plm.ddP # Null =>
                      SMul(get_ddPlm(l, m), get_Nlm(l, m)) = get_ddPlm_bar(l, m)

C9_Witness ==
    /\ plm.pc = "done" /\ plm.l_max >= 2 /\ plm.ddP # Null
    /\ get_Plm_bar(2, 1).n # 0 /\ get_Plm(2, 1) # get_Plm_bar(2, 1)
    /\ get_dPlm_bar(2, 1).n # 0 /\ get_dPlm(2, 1) # get_dPlm_bar(2, 1)
    /\ get_ddPlm_bar(2, 1).n # 0 /\ get_ddPlm(2, 1) # get_ddPlm_bar(2, 1)

\* q = x / y, decided without dividing: the signs agree and q^2 * y^2 = x^2
IsQuotient(q, x, y) ==
    /\ y.n # 0
    /\ Sign(q.n) = Sign(x.n) * Sign(y.n)
    /\ SSquare(q)[1] * SSquare(y)[1] * SSquare(x)[2]
          = SSquare(x)[1] * SSquare(q)[2] * SSquare(y)[2]

\* C10 as stated: the value get_Plm returns is the normalized value
\* multiplied by the table entry.
C10_AsStated ==
    ret.fn = "get_Plm" =>
        ret.val = SMul(get_Plm_bar(ret.l, ret.m), get_Nlm(ret.l, ret.m))

\* C10 amended: the table entry is the divisor: every value get_Plm returns
\* is the normalized value divided by get_Nlm(l,m) (the entry converts an
\* unnormalized value to its fully-normalized counterpart).
C10_NlmIsDivisor ==
    ret.fn = "get_Plm" =>
        IsQuotient(ret.val, get_Plm_bar(ret.l, ret.m), get_Nlm(ret.l, ret.m))

C10_Witness ==
    /\ ret.fn = "get_Plm" /\ ret.l = 3 /\ ret.m = 2
    /\ ret.val.n # 0 /\ ret.val # get_Plm_bar(3, 2)
    /\ SSquare(get_Nlm(3, 2)) = <<7, 60>>

(***************************************************************************)
(* Ownership.  A caller holds instances of one class in the variables of   *)
(* Slots and constructs, copy-constructs, assigns and destroys them.       *)
(* mem.heap is the sequence of all arrays ever obtained from new double[]: *)
(* an address is a position in it and is never handed out twice;           *)
(* mem.objs[x] is the instance in variable x; mem.variant tells which of   *)
(* the two builds of the class is used (header-only or compiled);          *)
(* mem.dfree records a delete[] of an array that was already released;     *)
(* mem.last is the last operation.  An array entry is kept as the name of  *)
(* the write the constructor made to it.  The arrays a constructor frees   *)
(* again before it returns (a, b, f, the sample engines) are left out.     *)
(***************************************************************************)
\* Largest maximum degree of an instance of the ownership model
MaxLOwn == 1

\* Number of arrays the heap can hand out
MaxAllocs == 4

\* The caller's variables
Slots == {"a", "b"}

\* The angle argument (theta of Plm, I of Flmp) the caller constructs the
\* instance of variable x with: a different one for each variable
AngleOf(x) == IF x = "a" THEN 1 ELSE 2

NullPtr == 0

NoObj == [live |-> FALSE]

\* What a read through nullptr, of released storage or past the end yields
Garbage == [arr |-> "garbage", l_max |-> 0, x |-> 0, i |-> 0]

\* Values an int member can hold when it is read before it was initialized
IndeterminateInts == 0..(MaxLOwn + 1)

\* Values a double member can hold when it is read before it was initialized
IndeterminateDoubles == {0, 1}

\* The entries a constructor writes into an array of `size` doubles
Written(name, L, x, size) ==
    [i \in 0..(size - 1) |-> [arr |-> name, l_max |-> L, x |-> x, i |-> i]]

\* new double[size], filled with data; the new address is Len of the heap
New(s, data) ==
    [s EXCEPT !.heap = Append(@, [st |-> "live", data |-> data])]

\* delete[] p
Delete(s, p) ==
    IF p = NullPtr THEN s
    ELSE IF s.heap[p].st = "live"
    THEN [s EXCEPT !.heap = [@ EXCEPT ![p] = [st |-> "released", data |-> <<>>]]]
    ELSE [s EXCEPT !.dfree = TRUE]

\* p[idx]
MemRead(s, p, idx) ==
    IF p # NullPtr /\ s.heap[p].st = "live" /\ idx \in DOMAIN s.heap[p].data
    THEN s.heap[p].data[idx]
    ELSE Garbage

\* std::copy(p, p + size, dst), or the loop dst[i] = p[i] for i < size
CopyOf(s, p, size) == [i \in 0..(size - 1) |-> MemRead(s, p, i)]

\* Nlm::Nlm() {}: _Nlm is nullptr by its member initializer, l_max is left
\* uninitialized and reads as g
Nlm_default(g) == [l_max |-> g, arr |-> NullPtr]

\* Nlm::Nlm(int l_max)
Nlm_ctor(s, L) ==
    LET s1 == New(s, Written("_Nlm", L, 0, tri_size(L)))
    IN  [s |-> s1, o |-> [l_max |-> L, arr |-> Len(s1.heap)]]

\* A copy that takes over the pointer instead of the entries
Nlm_copy_wrong(s, other) == [s |-> s, o |-> other]

\* Nlm::Nlm(const Nlm &other)
Nlm_copy(s, other) ==
    LET s1 == New(s, CopyOf(s, other.arr, tri_size(other.l_max)))
    IN  [s |-> s1, o |-> [l_max |-> other.l_max, arr |-> Len(s1.heap)]]

\* Nlm::operator=; same is `this == &other`
Nlm_assign(s, this, other, same) ==
    IF same THEN [s |-> s, o |-> this]
    ELSE IF other.arr # NullPtr
    THEN LET s1 == New(s, CopyOf(s, other.arr, tri_size(other.l_max)))
         IN  [s |-> s1, o |-> [l_max |-> other.l_max, arr |-> Len(s1.heap)]]
    ELSE [s |-> s, o |-> [this EXCEPT !.l_max = other.l_max]]

\* Nlm::~Nlm
Nlm_dtor(s, this) == Delete(s, this.arr)

\* Plm::Plm() {}: the arrays are nullptr by their member initializers, _Nlm is
\* default-constructed, l_max and theta are left uninitialized
Plm_default(g, gN, th) ==
    [l_max |-> g, theta |-> th, N |-> Nlm_default(gN), P |-> NullPtr,
     dP |-> NullPtr, ddP |-> NullPtr]

\* Plm::Plm(int l_max, double theta, bool derivatives, bool second_derivatives)
Plm_ctor(s, L, th, d, dd) ==
    LET n  == Nlm_ctor(s, L)
        s1 == New(n.s, Written("_Plm", L, th, tri_size(L)))
        s2 == IF d THEN New(s1, Written("_dPlm", L, th, tri_size(L))) ELSE s1
        s3 == IF d /\ dd THEN New(s2, Written("_ddPlm", L, th, tri_size(L)))
              ELSE s2
    IN  [s |-> s3,
         o |-> [l_max |-> L, theta |-> th, N |-> n.o, P |-> Len(s1.heap),
                dP |-> IF d THEN Len(s2.heap) ELSE NullPtr,
                ddP |-> IF d /\ dd THEN Len(s3.heap) ELSE NullPtr]]

\* Plm::Plm(const Plm &other); lmax is the value of the member l_max when the
\* body runs: other.l_max after l_max(other.l_max), indeterminate after
\* l_max(l_max)
Plm_copy(s, other, lmax) ==
    LET n    == Nlm_copy(s, other.N)
        size == tri_size(lmax)
        s1 == New(n.s, CopyOf(n.s, other.P, size))
        s2 == IF other.dP # NullPtr THEN New(s1, CopyOf(s1, other.dP, size))
              ELSE s1
        s3 == IF other.ddP # NullPtr THEN New(s2, CopyOf(s2, other.ddP, size))
              ELSE s2
    IN  [s |-> s3,
         o |-> [l_max |-> lmax, theta |-> other.theta, N |-> n.o,
                P |-> Len(s1.heap),
                dP |-> IF other.dP # NullPtr THEN Len(s2.heap) ELSE NullPtr,
                ddP |-> IF other.ddP # NullPtr THEN Len(s3.heap) ELSE NullPtr]]

\* Plm::operator=
Plm_assign(s, this, other, same) ==
    IF same THEN [s |-> s, o |-> this]
    ELSE
    LET d1   == Delete(Delete(Delete(s, this.P), this.dP), this.ddP)
        n    == Nlm_assign(d1, this.N, other.N, FALSE)
        size == tri_size(other.l_max)
        s1 == IF other.P # NullPtr THEN New(n.s, CopyOf(n.s, other.P, size))
              ELSE n.s
        s2 == IF other.dP # NullPtr THEN New(s1, CopyOf(s1, other.dP, size))
              ELSE s1
        s3 == IF other.ddP # NullPtr THEN New(s2, CopyOf(s2, other.ddP, size))
              ELSE s2
    IN  [s |-> s3,
         o |-> [l_max |-> other.l_max, theta |-> other.theta, N |-> n.o,
                P |-> IF other.P # NullPtr THEN Len(s1.heap) ELSE NullPtr,
                dP |-> IF other.dP # NullPtr THEN Len(s2.heap) ELSE NullPtr,
                ddP |-> IF other.ddP # NullPtr THEN Len(s3.heap) ELSE NullPtr]]

\* Plm::~Plm, then the destructor of the member _Nlm
Plm_dtor(s, this) ==
    Nlm_dtor(Delete(Delete(Delete(s, this.P), this.dP), this.ddP), this.N)

\* Flmp::Flmp() : l_max(0), _Flmp(nullptr), _dFlmp(nullptr); I is left
\* uninitialized
Flmp_default(I) == [l_max |-> 0, I |-> I, F |-> NullPtr, dF |-> NullPtr]

\* Flmp::Flmp(int l_max, double I, bool compute_derivatives)
Flmp_ctor(s, L, I, d) ==
    LET s1 == New(s, Written("_Flmp", L, I, l_idx(L + 1)))
        s2 == IF d THEN New(s1, Written("_dFlmp", L, I, l_idx(L + 1))) ELSE s1
    IN  [s |-> s2,
         o |-> [l_max |-> L, I |-> I, F |-> Len(s1.heap),
                dF |-> IF d THEN Len(s2.heap) ELSE NullPtr]]

\* other._Flmp != nullptr && other.l_max > 0 (and the same for _dFlmp)
FlmpCopies(other, p) == p # NullPtr /\ other.l_max > 0

\* Flmp::Flmp(const Flmp &other)
Flmp_copy(s, other) ==
    LET size == l_idx(other.l_max + 1)
        s1 == IF FlmpCopies(other, other.F)
              THEN New(s, CopyOf(s, other.F, size)) ELSE s
        s2 == IF FlmpCopies(other, other.dF)
              THEN New(s1, CopyOf(s1, other.dF, size)) ELSE s1
    IN  [s |-> s2,
         o |-> [l_max |-> other.l_max, I |-> other.I,
                F |-> IF FlmpCopies(other, other.F) THEN Len(s1.heap)
                      ELSE NullPtr,
                dF |-> IF FlmpCopies(other, other.dF) THEN Len(s2.heap)
                       ELSE NullPtr]]

\* Flmp::operator=.  The else branches are `_Flmp = nullptr;` in the header
\* and `_Flmp == nullptr;`, a comparison without effect, in Flmp.cpp.
Flmp_assign(s, this, other, same, variant) ==
    IF same THEN [s |-> s, o |-> this]
    ELSE
    LET size == l_idx(other.l_max + 1)
        s1 == IF FlmpCopies(other, other.F)
              THEN New(s, CopyOf(s, other.F, size)) ELSE s
        s2 == IF FlmpCopies(other, other.dF)
              THEN New(s1, CopyOf(s1, other.dF, size)) ELSE s1
    IN  [s |-> s2,
         o |-> [l_max |-> other.l_max, I |-> other.I,
                F |-> IF FlmpCopies(other, other.F) THEN Len(s1.heap)
                      ELSE IF variant = "header" THEN NullPtr ELSE this.F,
                dF |-> IF FlmpCopies(other, other.dF) THEN Len(s2.heap)
                       ELSE IF variant = "header" THEN NullPtr ELSE this.dF]]

\* Flmp::~Flmp
Flmp_dtor(s, this) == Delete(Delete(s, this.F), this.dF)

(***************************************************************************)
(* Flmp: the harmonic analysis engine.  flmp.F and flmp.dF are the owned   *)
(* arrays _Flmp and _dFlmp.  The spectrum y = rfft(Tlm) comes from the     *)
(* external transform, so a stored coefficient is kept as the expression   *)
(* the constructor formed from it: sgn * term (/ 2 when half), where term  *)
(* is "C", "C+S" or "C-S" of C[i], S[i] of the spectrum of (pass, l, m).   *)
(* flmp.plm is the constructor's local std::vector<Plm> of sample engines  *)
(* and flmp.heap holds the arrays those engines own.                       *)
(***************************************************************************)
Sym(sgn, half, term, pass, l, m, i) ==
    [sgn |-> sgn, half |-> half, term |-> term, pass |-> pass,
     l |-> l, m |-> m, i |-> i]

\* An unwritten slot of `new double[]`
FUninit == Sym(0, FALSE, "uninit", "", 0, 0, 0)

\* The literal 0 the k-indexed getters return outside |k| <= l
FZero == Sym(0, FALSE, "zero", "", 0, 0, 0)

\* What a read through a null pointer or outside the array yields
FGarbage == Sym(0, FALSE, "garbage", "", 0, 0, 0)

FlmpSize_wrong(l_max) == l_idx(l_max)

\* new double[l_idx(l_max + 1)]
FlmpSize(l_max) == l_idx(l_max + 1)

NewFArray(size) == [i \in 0..(size - 1) |-> FUninit]

RECURSIVE Pow2(_)
Pow2(e) == IF e = 0 THEN 1 ELSE 2 * Pow2(e - 1)

\* ceil(log2(x)) for an integer x >= 1: the least e with 2^e >= x
RECURSIVE CeilLog2From(_, _)
CeilLog2From(x, e) == IF Pow2(e) >= x THEN e ELSE CeilLog2From(x, e + 1)

\* N without the + 1
NumSamples_wrong(l_max) == Pow2(CeilLog2From(2 * l_max, 0))

\* const int N = pow(2, ceil(log2(2 * l_max + 1)))
NumSamples(l_max) == Pow2(CeilLog2From(2 * l_max + 1, 0))

\* Flmp(l_max, I, compute_derivatives): state on entry, _Flmp allocated and
\* N determined.
InitFlmp ==
    /\ \E L \in 0..MaxLFlmp, d \in BOOLEAN :
          flmp = [pc |-> "sample", l_max |-> L, compute_derivatives |-> d,
                  F |-> NewFArray(FlmpSize(L)), dF |-> Null,
                  wF |-> NoWrites(FlmpSize(L)), wdF |-> Null,
                  N |-> NumSamples(L), pass |-> "F",
                  plm |-> <<>>, heap |-> <<>>, dfree |-> FALSE,
                  l |-> 0, m |-> 0, lm |-> 0, i |-> 0,
                  cs |-> [pass |-> "", l |-> 0, m |-> 0]]
    /\ test = TestIdle
    /\ nlm = NlmIdle
    /\ plm = PlmIdle
    /\ ret = RetNone
    /\ mem = MemIdle

\* A return that leaves the sample engines alone
DestroyAll_wrong(s, engines) == s

\* End of the scope of std::vector<Plm> plm: every element is destroyed
RECURSIVE DestroyAll(_, _)
DestroyAll(s, engines) ==
    IF engines = <<>> THEN s
    ELSE DestroyAll(Plm_dtor(s, Head(engines)), Tail(engines))

\* Sampling loop: plm.emplace_back(l_max, theta[i], compute_derivatives); the
\* sample engines are flmp.plm, their arrays are in flmp.heap, and sample i
\* stands for its co-latitude theta[i]
FlmpStepSample ==
    /\ flmp.pc = "sample"
    /\ flmp' = IF flmp.i < flmp.N
               THEN LET r == Plm_ctor(flmp, flmp.l_max, flmp.i,
                                      flmp.compute_derivatives, FALSE)
                    IN  [r.s EXCEPT !.i = @ + 1, !.plm = Append(@, r.o)]
               ELSE [flmp EXCEPT !.pc = "fft", !.i = 0]
    /\ UNCHANGED <<test, nlm, plm, ret, mem>>

\* The same step, but the derivative pass starts without `lm = 0`
FlmpStepFFT_wrong ==
    /\ flmp.pc = "fft"
    /\ flmp' = IF flmp.l <= flmp.l_max
               THEN [flmp EXCEPT !.pc = "map0",
                        !.cs = [pass |-> flmp.pass, l |-> flmp.l, m |-> flmp.m]]
               ELSE IF flmp.pass = "F" /\ flmp.compute_derivatives
               THEN [flmp EXCEPT !.pass = "dF",
                        !.dF = NewFArray(FlmpSize(flmp.l_max)),
                        !.wdF = NoWrites(FlmpSize(flmp.l_max)),
                        !.l = 0, !.m = 0]
               ELSE [DestroyAll(flmp, flmp.plm) EXCEPT
                        !.pc = "done", !.plm = <<>>, !.l = 0, !.m = 0,
                        !.dF = IF flmp.pass = "F" THEN Null ELSE @]
    /\ UNCHANGED <<test, nlm, plm, ret, mem>>

\* Head of the (l, m) loop body: Tlm, y = rfft(Tlm), C[i], S[i] for i = 0..l.
\* Past the last (l, m) the pass ends: the value pass is followed by the
\* derivative pass (after allocating _dFlmp) or by _dFlmp = nullptr; when the
\* constructor returns, the sample engines are destroyed.
FlmpStepFFT ==
    /\ flmp.pc = "fft"
    /\ flmp' = IF flmp.l <= flmp.l_max
               THEN [flmp EXCEPT !.pc = "map0",
                        !.cs = [pass |-> flmp.pass, l |-> flmp.l, m |-> flmp.m]]
               ELSE IF flmp.pass = "F" /\ flmp.compute_derivatives
               THEN [flmp EXCEPT !.pass = "dF",
                        !.dF = NewFArray(FlmpSize(flmp.l_max)),
                        !.wdF = NoWrites(FlmpSize(flmp.l_max)),
                        !.l = 0, !.m = 0, !.lm = 0]
               ELSE [DestroyAll(flmp, flmp.plm) EXCEPT
                        !.pc = "done", !.plm = <<>>, !.l = 0, !.m = 0,
                        !.dF = IF flmp.pass = "F" THEN Null ELSE @]
    /\ UNCHANGED <<test, nlm, plm, ret, mem>>

\* A store that goes to _Flmp in either pass
FStore_wrong(st, idx, val) ==
    [st EXCEPT !.F = [@ EXCEPT ![idx] = val],
               !.wF = [@ EXCEPT ![idx] = @ + 1]]

\* The array the current pass writes, with slot idx set to val; wF and wdF
\* count the assignments made to each slot of _Flmp and _dFlmp
FStore(st, idx, val) ==
    IF st.pass = "F"
    THEN [st EXCEPT !.F = [@ EXCEPT ![idx] = val],
                    !.wF = [@ EXCEPT ![idx] = @ + 1]]
    ELSE [st EXCEPT !.dF = [@ EXCEPT ![idx] = val],
                    !.wdF = [@ EXCEPT ![idx] = @ + 1]]

\* if (l % 2 == 0) _Flmp[lm + l / 2] = m % 2 == 0 ? C[0] : -C[0];
FlmpStepMap0 ==
    /\ flmp.pc = "map0"
    /\ LET l == flmp.l  m == flmp.m  c == flmp.cs
           C0 == Sym(IF CMod(m, 2) = 0 THEN 1 ELSE -1, FALSE, "C",
                     c.pass, c.l, c.m, 0)
           st == [flmp EXCEPT !.pc = "mapi", !.i = 0]
       IN  flmp' = IF CMod(l, 2) = 0
                   THEN FStore(st, flmp.lm + CDiv(l, 2), C0)
                   ELSE st
    /\ UNCHANGED <<test, nlm, plm, ret, mem>>

\* The same loop with the two assignments of each branch in the other order
FlmpStepMapI_wrong ==
    /\ flmp.pc = "mapi"
    /\ LET l == flmp.l  m == flmp.m  i == flmp.i  c == flmp.cs
           lo == flmp.lm + CDiv(l - i, 2)
           hi == flmp.lm + CDiv(l + i, 2)
           st == [flmp EXCEPT !.i = @ + 1]
           nx == NextRowMajor(l, m)
       IN  flmp' =
             IF i <= l
             THEN IF CMod(i, 2) # CMod(l, 2) THEN st
                  ELSE IF CMod(l, 2) = CMod(m, 2)
                  THEN FStore(FStore(st, hi, Sym(1, TRUE, "C-S", c.pass, c.l, c.m, i)),
                              lo, Sym(1, TRUE, "C+S", c.pass, c.l, c.m, i))
                  ELSE FStore(FStore(st, lo, Sym(-1, TRUE, "C-S", c.pass, c.l, c.m, i)),
                              hi, Sym(-1, TRUE, "C+S", c.pass, c.l, c.m, i))
             ELSE [flmp EXCEPT !.pc = "fft", !.i = 0, !.lm = @ + (l + 1),
                               !.l = nx[1], !.m = nx[2]]
    /\ UNCHANGED <<test, nlm, plm, ret, mem>>

\* The same loop with only the first assignment of each branch
FlmpStepMapI_skip_wrong ==
    /\ flmp.pc = "mapi"
    /\ LET l == flmp.l  m == flmp.m  i == flmp.i  c == flmp.cs
           lo == flmp.lm + CDiv(l - i, 2)
           hi == flmp.lm + CDiv(l + i, 2)
           st == [flmp EXCEPT !.i = @ + 1]
           nx == NextRowMajor(l, m)
       IN  flmp' =
             IF i <= l
             THEN IF CMod(i, 2) # CMod(l, 2) THEN st
                  ELSE IF CMod(l, 2) = CMod(m, 2)
                  THEN FStore(st, lo, Sym(1, TRUE, "C+S", c.pass, c.l, c.m, i))
                  ELSE FStore(st, hi, Sym(-1, TRUE, "C+S", c.pass, c.l, c.m, i))
             ELSE [flmp EXCEPT !.pc = "fft", !.i = 0, !.lm = @ + (l + 1),
                               !.l = nx[1], !.m = nx[2]]
    /\ UNCHANGED <<test, nlm, plm, ret, mem>>

\* One pass of `for (i = 0; i <= l; i++) if (i % 2 == l % 2) {...}` in the
\* branch l % 2 == m % 2 or in the else branch; after the loop lm += l + 1.
FlmpStepMapI ==
    /\ flmp.pc = "mapi"
    /\ LET l == flmp.l  m == flmp.m  i == flmp.i  c == flmp.cs
           lo == flmp.lm + CDiv(l - i, 2)
           hi == flmp.lm + CDiv(l + i, 2)
           st == [flmp EXCEPT !.i = @ + 1]
           nx == NextRowMajor(l, m)
       IN  flmp' =
             IF i <= l
             THEN IF CMod(i, 2) # CMod(l, 2) THEN st
                  ELSE IF CMod(l, 2) = CMod(m, 2)
                  THEN FStore(FStore(st, lo, Sym(1, TRUE, "C+S", c.pass, c.l, c.m, i)),
                              hi, Sym(1, TRUE, "C-S", c.pass, c.l, c.m, i))
                  ELSE FStore(FStore(st, hi, Sym(-1, TRUE, "C+S", c.pass, c.l, c.m, i)),
                              lo, Sym(-1, TRUE, "C-S", c.pass, c.l, c.m, i))
             ELSE [flmp EXCEPT !.pc = "fft", !.i = 0, !.lm = @ + (l + 1),
                               !.l = nx[1], !.m = nx[2]]
    /\ UNCHANGED <<test, nlm, plm, ret, mem>>

\* A read of arr[idx]: the value and the storage touched
FRead(name, arr, idx) ==
    [val |-> IF idx \in DOMAIN arr THEN arr[idx] ELSE FGarbage,
     reads |-> {<<name, idx>>}]

OutOfRangeK_wrong(l, k) == k > l

\* abs(k) > l
OutOfRangeK(l, k) == Abs(k) > l

\* Flmp::get_Flmp, get_Flmk, get_dFlmp, get_dFlmk
get_Flmp(l, m, p) == FRead("_Flmp", flmp.F, lmp_idx(l, m, p))

get_Flmk(l, m, k) ==
    IF OutOfRangeK(l, k) THEN [val |-> FZero, reads |-> {}]
    ELSE FRead("_Flmp", flmp.F, lmk_idx(l, m, k))

get_dFlmp(l, m, p) == FRead("_dFlmp", flmp.dF, lmp_idx(l, m, p))

get_dFlmk(l, m, k) ==
    IF OutOfRangeK(l, k) THEN [val |-> FZero, reads |-> {}]
    ELSE FRead("_dFlmp", flmp.dF, lmk_idx(l, m, k))

\* Only the two value terms of the combination
get_Flmk_star_wrong(l, m, k) ==
    LET F1 == get_Flmk(l, m, k - 1)
        F2 == get_Flmk(l, m, k + 1)
    IN  [val |-> [fn |-> "star", m |-> m, a1 |-> k - 1, F1 |-> F1.val,
                  a2 |-> k + 1, F2 |-> F2.val, d1 |-> FZero, d2 |-> FZero],
         reads |-> F1.reads \cup F2.reads]

\* Flmp::get_Flmk_star: 0.5 * (((k - 1) * cos(I) - m) / sin(I) * F1 +
\* ((k + 1) * cos(I) - m) / sin(I) * F2 + -d1 + d2), kept as its operands
get_Flmk_star(l, m, k) ==
    LET F1 == get_Flmk(l, m, k - 1)
        F2 == get_Flmk(l, m, k + 1)
        d1 == get_dFlmk(l, m, k - 1)
        d2 == get_dFlmk(l, m, k + 1)
    IN  [val |-> [fn |-> "star", m |-> m, a1 |-> k - 1, F1 |-> F1.val,
                  a2 |-> k + 1, F2 |-> F2.val, d1 |-> d1.val, d2 |-> d2.val],
         reads |-> F1.reads \cup F2.reads \cup d1.reads \cup d2.reads]

FlmpGet(fn, l, m, x) ==
    CASE fn = "get_Flmp"  -> get_Flmp(l, m, x)
      [] fn = "get_Flmk"  -> get_Flmk(l, m, x)
      [] fn = "get_dFlmp" -> get_dFlmp(l, m, x)
      [] fn = "get_dFlmk" -> get_dFlmk(l, m, x)
      [] fn = "get_Flmk_star" -> get_Flmk_star(l, m, x)

\* The call read through the null _dFlmp
ReadsNull(reads) == flmp.dF = Null /\ \E rd \in reads : rd[1] = "_dFlmp"

\* The call did not return: a read through a null pointer may fault
FFault == Sym(0, FALSE, "fault", "", 0, 0, 0)

\* The k values a caller tries: all of -l..l and some beyond either end
KRange == (-(flmp.l_max + 2))..(flmp.l_max + 2)

\* A caller reads one value of the constructed engine: 0 <= m <= l <= l_max,
\* p in 0..l or any k; the derivative array is asked for a stored slot only
\* on an engine built with derivatives.  get_Flmk_star is called on any
\* engine: where it reads through the null _dFlmp the call either faults or
\* goes on with whatever the read yields.
CallGetFlmp ==
    /\ flmp.pc = "done"
    /\ \E fn \in {"get_Flmp", "get_Flmk", "get_dFlmp", "get_dFlmk",
                   "get_Flmk_star"} :
       \E l \in 0..flmp.l_max : \E m \in 0..l : \E x \in KRange :
       \E faults \in IF fn = "get_Flmk_star" THEN BOOLEAN ELSE {FALSE} :
          /\ fn \in {"get_Flmp", "get_dFlmp"} => x \in 0..l
          /\ fn = "get_dFlmp" => flmp.dF # Null
          /\ (fn = "get_dFlmk" /\ Abs(x) <= l) => flmp.dF # Null
          /\ LET r == FlmpGet(fn, l, m, x)
             IN  ret' = [fn |-> fn, l |-> l, m |-> m, k |-> x,
                         val |-> IF ReadsNull(r.reads) /\ faults
                                 THEN FFault ELSE r.val,
                         reads |-> r.reads]
    /\ UNCHANGED <<test, nlm, plm, flmp, mem>>

NextFlmp ==
    \/ FlmpStepSample \/ FlmpStepFFT \/ FlmpStepMap0 \/ FlmpStepMapI
    \/ CallGetFlmp

SpecFlmp == InitFlmp /\ [][NextFlmp]_vars

\* The allocated arrays of the engine
FlmpArrays == {arr \in {flmp.F, flmp.dF} : arr # Null}

\* C3 as stated: every array the engine allocates has l_idx(l_max+1)
\* entries, and that is l_max(l_max+1)(2 l_max+1)/6.
C3_AsStated ==
    flmp.pc # "none" =>
        \A arr \in FlmpArrays :
            /\ Cardinality(DOMAIN arr) = l_idx(flmp.l_max + 1)
            /\ Cardinality(DOMAIN arr)
                  = (flmp.l_max * (flmp.l_max + 1) * (2 * flmp.l_max + 1)) \div 6

\* C3 amended: every array the engine allocates has l_idx(l_max+1) entries
\* (indices 0..size-1), and that is (l_max+1)(l_max+2)(2 l_max+3)/6, the
\* number of triples (l,m,p) with 0 <= m <= l <= l_max, 0 <= p <= l.
C3_FlmpArraySize ==
    flmp.pc # "none" =>
        LET L == flmp.l_max
            triples == {x \in (0..L) \X (0..L) \X (0..L) :
                           x[2] <= x[1] /\ x[3] <= x[1]}
        IN  \A arr \in FlmpArrays :
                /\ DOMAIN arr = 0..(Cardinality(DOMAIN arr) - 1)
                /\ Cardinality(DOMAIN arr) = l_idx(L + 1)
                /\ Cardinality(DOMAIN arr) = ((L + 1) * (L + 2) * (2 * L + 3)) \div 6
                /\ Cardinality(DOMAIN arr) = Cardinality(triples)

C3_Witness ==
    /\ flmp.pc = "done" /\ flmp.l_max = 2 /\ flmp.compute_derivatives
    /\ Cardinality(DOMAIN flmp.F) = 14
    /\ Cardinality(DOMAIN flmp.dF) = 14

\* C4: on a constructed engine, for all 0 <= m <= l <= l_max and every k
\* with |k| > l, get_Flmk and get_dFlmk return the literal 0 and read no
\* storage, whether or not the derivative array exists.
C4_FlmkBoundaryZero ==
    flmp.pc = "done" =>
        \A l \in 0..flmp.l_max : \A m \in 0..l : \A k \in KRange :
            Abs(k) > l =>
                /\ get_Flmk(l, m, k) = [val |-> FZero, reads |-> {}]
                /\ get_dFlmk(l, m, k) = [val |-> FZero, reads |-> {}]

C4_Witness ==
    /\ flmp.pc = "done" /\ flmp.dF = Null
    /\ ret.fn = "get_dFlmk" /\ ret.l = 2 /\ ret.k = -3
    /\ ret.val = FZero /\ ret.reads = {}

\* C5: on a constructed engine, for all 0 <= m <= l <= l_max and
\* 0 <= p <= l, get_Flmk(l,m,l-2p) reads the same slot and returns the same
\* value as get_Flmp(l,m,p), and on an engine built with derivatives
\* get_dFlmk(l,m,l-2p) does so with get_dFlmp(l,m,p).
C5_KIndexedEqualsPIndexed ==
    flmp.pc = "done" =>
        \A l \in 0..flmp.l_max : \A m \in 0..l : \A p \in 0..l :
            /\ get_Flmk(l, m, l - 2 * p) = get_Flmp(l, m, p)
            /\ flmp.dF # Null =>
                  get_dFlmk(l, m, l - 2 * p) = get_dFlmp(l, m, p)

C5_Witness ==
    /\ flmp.pc = "done" /\ flmp.dF # Null
    /\ ret.fn = "get_dFlmk" /\ ret.l = 3 /\ ret.m = 1 /\ ret.k = -1
    /\ ret.val = get_dFlmp(3, 1, 2).val
    /\ ret.val = Sym(1, TRUE, "C-S", "dF", 3, 1, 1)
    /\ get_Flmk(3, 1, 3).val = Sym(1, TRUE, "C+S", "F", 3, 1, 3)

InitMem ==
    /\ \E c \in {"Nlm", "Plm", "Flmp"}, v \in {"header", "compiled"} :
          mem = [cls |-> c, variant |-> v, objs |-> [x \in Slots |-> NoObj],
                 heap |-> <<>>, dfree |-> FALSE,
                 last |-> [op |-> "none", dst |-> "", src |-> ""]]
    /\ test = TestIdle
    /\ nlm = NlmIdle
    /\ plm = PlmIdle
    /\ flmp = FlmpIdle
    /\ ret = RetNone

\* The operation returned r = [s, o]: instance o now lives in variable x
Commit(r, x, op, src) ==
    /\ Len(r.s.heap) <= MaxAllocs
    /\ mem' = [r.s EXCEPT !.objs = [@ EXCEPT ![x] = [live |-> TRUE, o |-> r.o]],
                          !.last = [op |-> op, dst |-> x, src |-> src]]
    /\ UNCHANGED <<test, nlm, plm, flmp, ret>>

\* T x(l_max, ...);
Construct ==
    \E x \in Slots : \E L \in 0..MaxLOwn :
    \E d \in BOOLEAN : \E dd \in BOOLEAN :
        /\ mem.cls # "none" /\ ~mem.objs[x].live
        /\ Commit(CASE mem.cls = "Nlm"  -> Nlm_ctor(mem, L)
                    [] mem.cls = "Plm"  -> Plm_ctor(mem, L, AngleOf(x), d, dd)
                    [] mem.cls = "Flmp" -> Flmp_ctor(mem, L, AngleOf(x), d),
                  x, "construct", "")

\* T x;
DefaultConstruct ==
    \E x \in Slots : \E g \in IndeterminateInts : \E gN \in IndeterminateInts :
    \E th \in IndeterminateDoubles :
        /\ mem.cls # "none" /\ ~mem.objs[x].live
        /\ Commit([s |-> mem,
                   o |-> CASE mem.cls = "Nlm"  -> Nlm_default(g)
                           [] mem.cls = "Plm"  -> Plm_default(g, gN, th)
                           [] mem.cls = "Flmp" -> Flmp_default(th)],
                  x, "default", "")

\* T x(y);
CopyConstruct ==
    \E x \in Slots : \E y \in Slots : \E g \in IndeterminateInts :
        /\ mem.cls # "none" /\ ~mem.objs[x].live /\ mem.objs[y].live
        /\ LET other == mem.objs[y].o
           IN  Commit(CASE mem.cls = "Nlm"  -> Nlm_copy(mem, other)
                        [] mem.cls = "Plm"  ->
                             Plm_copy(mem, other,
                                      IF mem.variant = "header"
                                      THEN other.l_max ELSE g)
                        [] mem.cls = "Flmp" -> Flmp_copy(mem, other),
                      x, "copy", y)

\* x = y;
Assign ==
    \E x \in Slots : \E y \in Slots :
        /\ mem.cls # "none" /\ mem.objs[x].live /\ mem.objs[y].live
        /\ LET this == mem.objs[x].o  other == mem.objs[y].o
           IN  Commit(CASE mem.cls = "Nlm"  ->
                             Nlm_assign(mem, this, other, x = y)
                        [] mem.cls = "Plm"  ->
                             Plm_assign(mem, this, other, x = y)
                        [] mem.cls = "Flmp" ->
                             Flmp_assign(mem, this, other, x = y, mem.variant),
                      x, "assign", y)

\* x goes out of scope
Destroy ==
    \E x \in Slots :
        /\ mem.cls # "none" /\ mem.objs[x].live
        /\ LET this == mem.objs[x].o
               s1 == CASE mem.cls = "Nlm"  -> Nlm_dtor(mem, this)
                       [] mem.cls = "Plm"  -> Plm_dtor(mem, this)
                       [] mem.cls = "Flmp" -> Flmp_dtor(mem, this)
           IN  mem' = [s1 EXCEPT !.objs = [@ EXCEPT ![x] = NoObj],
                                 !.last = [op |-> "destroy", dst |-> x,
                                           src |-> ""]]
        /\ UNCHANGED <<test, nlm, plm, flmp, ret>>

NextMem == Construct \/ CopyConstruct \/ Assign \/ Destroy

SpecMem == InitMem /\ [][NextMem]_vars

\* The copy made by the last operation, and the instance it was made from
LastIsCopy(c) ==
    /\ mem.cls = c
    /\ mem.last.op \in {"copy", "assign"}
    /\ mem.last.dst # mem.last.src

CopyObj == mem.objs[mem.last.dst].o

OrigObj == mem.objs[mem.last.src].o

\* The entries of the array at p
ArrayAt(p) == IF p = NullPtr THEN Null ELSE mem.heap[p].data

\* C11 as stated: after a copy construction or an assignment from a
\* HarmonicAnalysisEngine constructed with any l_max >= 0, with or without
\* derivatives, the copy has the same l_max and returns for every valid
\* (l,m,p) the same get_Flmp (and get_dFlmp when the original has
\* derivatives) as the original, read from storage of its own.
C11_AsStated ==
    (LastIsCopy("Flmp") /\ OrigObj.F # NullPtr) =>
        LET c == CopyObj  o == OrigObj
        IN  /\ c.l_max = o.l_max
            /\ c.F # NullPtr /\ c.F # o.F
            /\ \A l \in 0..o.l_max : \A m \in 0..l : \A p \in 0..l :
                  /\ MemRead(mem, c.F, lmp_idx(l, m, p))
                        = MemRead(mem, o.F, lmp_idx(l, m, p))
                  /\ MemRead(mem, c.F, lmp_idx(l, m, p)) # Garbage
            /\ o.dF # NullPtr =>
                  /\ c.dF # NullPtr /\ c.dF # o.dF
                  /\ \A l \in 0..o.l_max : \A m \in 0..l : \A p \in 0..l :
                        /\ MemRead(mem, c.dF, lmp_idx(l, m, p))
                              = MemRead(mem, o.dF, lmp_idx(l, m, p))
                        /\ MemRead(mem, c.dF, lmp_idx(l, m, p)) # Garbage

\* The pairs <<array of the copy, array of the original>> of two Plm
\* instances, the member _Nlm's array included
PlmArrayPairs(c, o) ==
    {<<c.P, o.P>>, <<c.dP, o.dP>>, <<c.ddP, o.ddP>>, <<c.N.arr, o.N.arr>>}

\* C12 as stated: after a copy construction or an assignment from a
\* LegendreEngine, in the header-only and in the compiled variant, the copy
\* has the same l_max and theta, arrays of the size the source's l_max
\* determines, and for every valid (l,m) the same value, derivative and
\* second derivative (where the original has them), in storage of its own.
C12_AsStated ==
    LastIsCopy("Plm") =>
        LET c == CopyObj  o == OrigObj
        IN  /\ c.l_max = o.l_max
            /\ c.theta = o.theta
            /\ c.N.l_max = o.N.l_max
            /\ \A pr \in PlmArrayPairs(c, o) :
                  pr[2] # NullPtr =>
                      /\ pr[1] # NullPtr /\ pr[1] # pr[2]
                      /\ DOMAIN ArrayAt(pr[1]) = 0..(tri_size(o.l_max) - 1)
                      /\ \A l \in 0..o.l_max : \A m \in 0..l :
                            /\ MemRead(mem, pr[1], lm_idx(l, m))
                                  = MemRead(mem, pr[2], lm_idx(l, m))
                            /\ MemRead(mem, pr[1], lm_idx(l, m)) # Garbage

\* The arrays the instance in variable x holds
Owned(x) ==
    IF ~mem.objs[x].live THEN {}
    ELSE LET o == mem.objs[x].o
         IN  (CASE mem.cls = "Nlm"  -> {o.arr}
                [] mem.cls = "Plm"  -> {o.P, o.dP, o.ddP, o.N.arr}
                [] mem.cls = "Flmp" -> {o.F, o.dF}) \ {NullPtr}

C14_AsStated ==
    (mem.cls # "none" /\ \A x \in Slots : ~mem.objs[x].live) =>
        \A p \in DOMAIN mem.heap : mem.heap[p].st # "live"

(***************************************************************************)
(* Construction of either engine: a Plm or an Flmp is built and read.      *)
(***************************************************************************)
InitEngines == InitPlm \/ InitFlmp

NextEngines == NextPlm \/ NextFlmp

SpecEngines == InitEngines /\ [][NextEngines]_vars

\* arr is allocated with `size` entries and every entry has been written
FullyWritten(arr, size, unwritten) ==
    /\ arr # Null
    /\ DOMAIN arr = 0..(size - 1)
    /\ \A i \in DOMAIN arr : arr[i] # unwritten

\* C15 as stated: after the Plm constructor returns, _dPlm is allocated and
\* fully written exactly when derivatives is true and _ddPlm exactly when
\* second_derivatives is true; after the Flmp constructor returns, _dFlmp
\* exists exactly when compute_derivatives is true.
C15_AsStated ==
    /\ plm.pc = "done" =>
          /\ FullyWritten(plm.dP, tri_size(plm.l_max), Uninit) <=> plm.derivatives
          /\ plm.dP # Null <=> plm.derivatives
          /\ FullyWritten(plm.ddP, tri_size(plm.l_max), Uninit)
                <=> plm.second_derivatives
          /\ plm.ddP # Null <=> plm.second_derivatives
    /\ flmp.pc = "done" => (flmp.dF # Null <=> flmp.compute_derivatives)

\* C15 amended: _dPlm is allocated and fully written exactly when
\* derivatives is true; _ddPlm is allocated and fully written exactly when
\* derivatives and second_derivatives are both true (second_derivatives
\* without derivatives allocates nothing); _dFlmp exists exactly when
\* compute_derivatives is true.
C15_DerivativeArrays ==
    /\ plm.pc = "done" =>
          /\ FullyWritten(plm.dP, tri_size(plm.l_max), Uninit) <=> plm.derivatives
          /\ plm.dP # Null <=> plm.derivatives
          /\ FullyWritten(plm.ddP, tri_size(plm.l_max), Uninit)
                <=> (plm.derivatives /\ plm.second_derivatives)
          /\ plm.ddP # Null <=> (plm.derivatives /\ plm.second_derivatives)
    /\ flmp.pc = "done" => (flmp.dF # Null <=> flmp.compute_derivatives)

C15_Witness ==
    /\ plm.pc = "done" /\ plm.l_max = 2
    /\ ~plm.derivatives /\ plm.second_derivatives
    /\ plm.dP = Null /\ plm.ddP = Null
    /\ FullyWritten(plm.P, 6, Uninit)

\* Largest l_max for which the sample count alone is evaluated
MaxLSamples == 70

RECURSIVE IsPow2(_)
IsPow2(n) == n = 1 \/ (n > 1 /\ n % 2 = 0 /\ IsPow2(n \div 2))

\* n is the smallest power of two >= x
SmallestPow2AtLeast(n, x) ==
    /\ IsPow2(n)
    /\ n >= x
    /\ (n = 1 \/ n \div 2 < x)

\* C16: the number of samples N the Flmp constructor chooses is the smallest
\* power of two >= 2 * l_max + 1: N is a power of two, N >= 2 * l_max + 1,
\* and N = 1 or N / 2 < 2 * l_max + 1; for the engine under construction and
\* for every l_max up to MaxLSamples.
C16_SampleCount ==
    flmp.pc # "none" =>
        /\ SmallestPow2AtLeast(flmp.N, 2 * flmp.l_max + 1)
        /\ \A L \in 0..MaxLSamples :
              SmallestPow2AtLeast(NumSamples(L), 2 * L + 1)

C16_Witness ==
    /\ flmp.pc = "fft" /\ flmp.l_max = 2 /\ flmp.N = 8 /\ Len(flmp.plm) = 8
    /\ NumSamples(0) = 1 /\ NumSamples(1) = 4 /\ NumSamples(64) = 256

\* Position of a constructor phase in the order of the source text
PhaseRank(pc) ==
    CASE pc = "none"   -> 0
      [] pc = "ab"     -> 1
      [] pc = "seed"   -> 2
      [] pc = "sect"   -> 3
      [] pc = "col"    -> 4
      [] pc = "f"      -> 5
      [] pc = "dsect"  -> 6
      [] pc = "dsub"   -> 7
      [] pc = "ddsect" -> 8
      [] pc = "ddsub"  -> 9
      [] pc = "done"   -> 10

\* The entries <<array, index>> the next step of the constructor reads
PlmReads ==
    LET l == plm.l  m == plm.m  L == plm.l_max
    IN  CASE plm.pc = "sect" /\ l <= L ->
               {<<"P", lm_idx(l - 1, l - 1)>>}
          [] plm.pc = "col" /\ m < L ->
               {<<"a", lm_idx(l, m)>>, <<"P", lm_idx(l - 1, m)>>}
               \cup (IF l = m + 1 THEN {}
                     ELSE {<<"b", lm_idx(l, m)>>, <<"P", lm_idx(l - 2, m)>>})
          [] plm.pc = "dsect" /\ m <= L ->
               {<<"P", lm_idx(m, m)>>}
          [] plm.pc = "dsub" /\ l <= L ->
               {<<"f", lm_idx(l, m)>>, <<"P", lm_idx(l, m)>>,
                <<"P", lm_idx(l - 1, m)>>}
          [] plm.pc = "ddsect" /\ m <= L ->
               {<<"dP", lm_idx(m, m)>>, <<"P", lm_idx(m, m)>>}
          [] plm.pc = "ddsub" /\ l <= L ->
               {<<"f", lm_idx(l, m)>>, <<"dP", lm_idx(l, m)>>,
                <<"dP", lm_idx(l - 1, m)>>, <<"P", lm_idx(l, m)>>}
          [] OTHER -> {}

\* Every entry the next step reads lies in an allocated array and was written
ReadsAreWritten ==
    \A rd \in PlmReads :
        /\ plm[rd[1]] # Null
        /\ rd[2] \in DOMAIN plm[rd[1]]
        /\ plm[rd[1]][rd[2]] # Uninit

\* C18: during the construction of a Plm, for every l_max and every flag
\* combination, each step reads only entries of _Plm, _dPlm, a, b, f that
\* were written earlier in the same construction, and the phases follow one
\* another in the order a/b, seed, sectorial pass, column pass, first
\* derivatives (f, sectorial, below the diagonal), second derivatives: no
\* step goes back to an earlier phase.
C18_PhasesReadWrittenEntries ==
    /\ [](plm.pc # "none" => ReadsAreWritten)
    /\ [][PhaseRank(plm'.pc) >= PhaseRank(plm.pc)]_vars

C18_Witness ==
    /\ plm.pc = "ddsub" /\ plm.l_max = 3 /\ plm.l = 3 /\ plm.m = 1
    /\ PlmReads = {<<"f", 7>>, <<"dP", 7>>, <<"dP", 4>>, <<"P", 7>>}
    /\ ReadsAreWritten
    /\ plm.ddP[7] = Uninit

\* +1 for even m, -1 for odd m
SignOfOrder(m) == IF CMod(m, 2) = 0 THEN 1 ELSE -1

\* C19 as stated: after construction, for every (l,m) with l even, the slot
\* at p = l/2 holds C_0 when m is even and -C_0 when m is odd.
C19_AsStated ==
    flmp.pc = "done" =>
        \A l \in 0..flmp.l_max : \A m \in 0..l :
            CMod(l, 2) = 0 =>
                get_Flmp(l, m, CDiv(l, 2)).val
                    = Sym(SignOfOrder(m), FALSE, "C", "F", l, m, 0)

\* C19 amended: after construction, for every (l,m) with l even, the slot at
\* p = l/2 holds (C_0 - S_0)/2 when m is even and -(C_0 - S_0)/2 when m is
\* odd: the pass i = 0 of the parity loop writes the slot twice after C_0
\* was stored in it, and the last of the two writes is the (C - S)/2 one.
C19_CentralSlot ==
    flmp.pc = "done" =>
        \A l \in 0..flmp.l_max : \A m \in 0..l :
            CMod(l, 2) = 0 =>
                get_Flmp(l, m, CDiv(l, 2)).val
                    = Sym(SignOfOrder(m), TRUE, "C-S", "F", l, m, 0)

C19_Witness ==
    /\ flmp.pc = "done" /\ flmp.l_max = 2
    /\ get_Flmp(2, 1, 1).val = Sym(-1, TRUE, "C-S", "F", 2, 1, 0)
    /\ get_Flmp(2, 2, 1).val = Sym(1, TRUE, "C-S", "F", 2, 2, 0)
    /\ get_Flmp(0, 0, 0).val = Sym(1, TRUE, "C-S", "F", 0, 0, 0)

\* The value pass has finished the mapping of (l, m)
ValueMapped(l, m) ==
    \/ flmp.pc = "done"
    \/ flmp.pass = "dF"
    \/ flmp.pc \in {"fft", "map0", "mapi"}
         /\ (l < flmp.l \/ (l = flmp.l /\ m < flmp.m))

\* C20: once the value pass has mapped (l,m), and from then on until and
\* after the constructor returns, for every i in 1..l with the parity of l:
\* if l and m have the same parity, slot (l-i)/2 holds (C_i+S_i)/2 and slot
\* (l+i)/2 holds (C_i-S_i)/2; otherwise slot (l+i)/2 holds -(C_i+S_i)/2 and
\* slot (l-i)/2 holds -(C_i-S_i)/2.
C20_ParityMapping ==
    flmp.pc # "none" =>
        \A l \in 0..flmp.l_max : \A m \in 0..l : \A i \in 1..l :
            (ValueMapped(l, m) /\ CMod(i, 2) = CMod(l, 2)) =>
                LET lo == flmp.F[lmp_idx(l, m, CDiv(l - i, 2))]
                    hi == flmp.F[lmp_idx(l, m, CDiv(l + i, 2))]
                IN  IF CMod(l, 2) = CMod(m, 2)
                    THEN /\ lo = Sym(1, TRUE, "C+S", "F", l, m, i)
                         /\ hi = Sym(1, TRUE, "C-S", "F", l, m, i)
                    ELSE /\ hi = Sym(-1, TRUE, "C+S", "F", l, m, i)
                         /\ lo = Sym(-1, TRUE, "C-S", "F", l, m, i)

C20_Witness ==
    /\ flmp.pc = "done" /\ flmp.l_max = 3 /\ flmp.dF # Null
    /\ ValueMapped(3, 2)
    /\ flmp.F[lmp_idx(3, 2, 0)] = Sym(-1, TRUE, "C-S", "F", 3, 2, 3)
    /\ flmp.F[lmp_idx(3, 2, 2)] = Sym(-1, TRUE, "C+S", "F", 3, 2, 1)
    /\ flmp.F[lmp_idx(2, 0, 0)] = Sym(1, TRUE, "C+S", "F", 2, 0, 2)
    /\ flmp.dF[lmp_idx(2, 0, 2)] = Sym(1, TRUE, "C-S", "dF", 2, 0, 2)

\* The coefficient expression sym with the spectrum of the derivative pass
\* put in place of the spectrum of the value pass
InDerivativePass(sym) ==
    IF sym.pass = "F" THEN [sym EXCEPT !.pass = "dF"] ELSE sym

SampleArrays(e) == {e.P, e.dP, e.ddP, e.N.arr} \ {NullPtr}

\* Sample engine number k (of sample i = k - 1) is a live Plm built as
\* Plm(l_max, theta[i], compute_derivatives)
SampleBuilt(k) ==
    LET e == flmp.plm[k]
    IN  /\ e.l_max = flmp.l_max /\ e.N.l_max = flmp.l_max
        /\ e.theta = k - 1
        /\ e.P # NullPtr /\ e.N.arr # NullPtr
        /\ (e.dP # NullPtr) <=> flmp.compute_derivatives
        /\ e.ddP = NullPtr
        /\ \A p \in SampleArrays(e) : flmp.heap[p].st = "live"

\* C22: the Flmp constructor creates one Plm per sample i = 0..N-1, N in
\* all, each built with the engine's l_max and derivative flag; while the
\* passes run all N are alive; a spectrum of the derivative pass, which
\* calls get_dPlm_bar on every sample engine, is computed only from engines
\* that have _dPlm; and when the constructor has returned no sample engine
\* is left and every array the N engines owned has been released, once.
C22_SampleEngines ==
    flmp.pc # "none" =>
        /\ flmp.pc = "sample" => Len(flmp.plm) = flmp.i /\ flmp.i <= flmp.N
        /\ flmp.pc \in {"fft", "map0", "mapi"} => Len(flmp.plm) = flmp.N
        /\ \A k \in DOMAIN flmp.plm : SampleBuilt(k)
        /\ flmp.cs.pass = "dF" /\ flmp.pc # "done" =>
              \A k \in DOMAIN flmp.plm : flmp.plm[k].dP # NullPtr
        /\ ~flmp.dfree
        /\ flmp.pc = "done" =>
              /\ flmp.plm = <<>>
              /\ Len(flmp.heap)
                    = flmp.N * (IF flmp.compute_derivatives THEN 3 ELSE 2)
              /\ \A p \in DOMAIN flmp.heap : flmp.heap[p].st = "released"

C22_Witness ==
    /\ flmp.pc = "done" /\ flmp.l_max = 2 /\ flmp.compute_derivatives
    /\ flmp.N = 8 /\ Len(flmp.heap) = 24 /\ flmp.plm = <<>>
    /\ flmp.heap[24].st = "released"

\* The indices of _Flmp (value pass) or _dFlmp (derivative pass) the next
\* step of the constructor writes
FlmpWrites ==
    LET l == flmp.l  i == flmp.i
    IN  CASE flmp.pc = "map0" /\ CMod(l, 2) = 0 ->
               {flmp.lm + CDiv(l, 2)}
          [] flmp.pc = "mapi" /\ i <= l /\ CMod(i, 2) = CMod(l, 2) ->
               {flmp.lm + CDiv(l - i, 2), flmp.lm + CDiv(l + i, 2)}
          [] OTHER -> {}

\* The spectral bins y[i] the step that forms C[i], S[i] reads
BinsRead == IF flmp.pc = "fft" /\ flmp.l <= flmp.l_max THEN 0..flmp.l ELSE {}

\* C23: every index the Flmp constructor writes, and every index get_Flmp,
\* get_dFlmp (0 <= m <= l <= l_max, 0 <= p <= l) and get_Flmk, get_dFlmk
\* (|k| <= l, l - k even or odd) read, lies in 0..l_idx(l_max+1)-1; and
\* every spectral bin i read for a degree l satisfies i <= N/2, so it is one
\* of the N/2+1 bins of the real-input transform.
C23_IndicesInRange ==
    flmp.pc # "none" =>
        LET inRange == 0..(l_idx(flmp.l_max + 1) - 1)
        IN  /\ FlmpWrites \subseteq inRange
            /\ FlmpWrites \subseteq
                  DOMAIN (IF flmp.pass = "F" THEN flmp.F ELSE flmp.dF)
            /\ \A i \in BinsRead : i <= CDiv(flmp.N, 2)
            /\ \A l \in 0..flmp.l_max : \A m \in 0..l :
                  /\ \A p \in 0..l :
                        \A rd \in get_Flmp(l, m, p).reads
                                  \cup get_dFlmp(l, m, p).reads :
                            rd[2] \in inRange
                  /\ \A k \in (-l)..l :
                        \A rd \in get_Flmk(l, m, k).reads
                                  \cup get_dFlmk(l, m, k).reads :
                            rd[2] \in inRange /\ rd[2] \in DOMAIN flmp.F

C23_Witness ==
    /\ flmp.pc = "mapi" /\ flmp.pass = "dF" /\ flmp.l_max = 3
    /\ flmp.l = 3 /\ flmp.m = 3 /\ flmp.i = 3
    /\ FlmpWrites = {26, 29}
    /\ get_Flmk(3, 3, -3).reads = {<<"_Flmp", 29>>}
    /\ get_Flmk(3, 3, 2).reads = {<<"_Flmp", 26>>}

\* The entries <<array, l, m>> the next step of the Plm constructor accesses
\* through lm_idx(l, m), written or read
PlmAccesses ==
    LET l == plm.l  m == plm.m  L == plm.l_max
    IN  CASE plm.pc = "ab" /\ l <= L ->
               {<<"a", l, m>>, <<"b", l, m>>}
          [] plm.pc = "seed" ->
               {<<"P", 0, 0>>} \cup (IF L > 0 THEN {<<"P", 1, 1>>} ELSE {})
          [] plm.pc = "sect" /\ l <= L ->
               {<<"P", l, l>>, <<"P", l - 1, l - 1>>}
          [] plm.pc = "col" /\ m < L ->
               {<<"P", l, m>>, <<"a", l, m>>, <<"P", l - 1, m>>}
               \cup (IF l = m + 1 THEN {}
                     ELSE {<<"b", l, m>>, <<"P", l - 2, m>>})
          [] plm.pc = "f" /\ l <= L ->
               {<<"f", l, m>>}
          [] plm.pc = "dsect" /\ m <= L ->
               {<<"dP", m, m>>, <<"P", m, m>>}
          [] plm.pc = "dsub" /\ l <= L ->
               {<<"dP", l, m>>, <<"f", l, m>>, <<"P", l, m>>,
                <<"P", l - 1, m>>}
          [] plm.pc = "ddsect" /\ m <= L ->
               {<<"ddP", m, m>>, <<"dP", m, m>>, <<"P", m, m>>}
          [] plm.pc = "ddsub" /\ l <= L ->
               {<<"ddP", l, m>>, <<"f", l, m>>, <<"dP", l, m>>,
                <<"dP", l - 1, m>>, <<"P", l, m>>}
          [] OTHER -> {}

\* C24: every access the Plm constructor makes to _Plm, _dPlm, _ddPlm, a, b
\* and f goes through lm_idx(l, m) of a pair with 0 <= m <= l <= l_max, to an
\* allocated array, at an index in 0..(l_max+1)(l_max+2)/2 - 1, for l_max = 0
\* as well; and the step of the column pass at degree m + 1 accesses no entry
\* (m - 1, m).
C24_PlmIndicesInRange ==
    plm.pc # "none" =>
        /\ \A acc \in PlmAccesses :
              /\ 0 <= acc[3] /\ acc[3] <= acc[2] /\ acc[2] <= plm.l_max
              /\ plm[acc[1]] # Null
              /\ lm_idx(acc[2], acc[3]) \in
                    0..(CDiv((plm.l_max + 1) * (plm.l_max + 2), 2) - 1)
              /\ lm_idx(acc[2], acc[3]) \in DOMAIN plm[acc[1]]
        /\ PlmReads \subseteq
              {<<acc[1], lm_idx(acc[2], acc[3])>> : acc \in PlmAccesses}
        /\ (plm.pc = "col" /\ plm.m < plm.l_max /\ plm.l = plm.m + 1) =>
              \A acc \in PlmAccesses : ~(acc[2] = plm.m - 1 /\ acc[3] = plm.m)

C24_Witness ==
    /\ plm.pc = "col" /\ plm.l_max = 3 /\ plm.l = 3 /\ plm.m = 2
    /\ PlmAccesses = {<<"P", 3, 2>>, <<"a", 3, 2>>, <<"P", 2, 2>>}
    /\ lm_idx(3, 2) = 8
    /\ DOMAIN plm.P = 0..9

\* The slot (l, m, p) of an array with write counts w was assigned at least
\* once, and exactly once unless l is even and p = l/2
SlotWritten(w, l, m, p) ==
    LET n == w[lmp_idx(l, m, p)]
    IN  /\ n >= 1
        /\ ~(CMod(l, 2) = 0 /\ p = CDiv(l, 2)) => n = 1

\* C25: when the Flmp constructor returns, every slot (l, m, p) with
\* 0 <= m <= l <= l_max, 0 <= p <= l of _Flmp, and of _dFlmp when derivatives
\* were requested, has been assigned at least once (none is left
\* uninitialized), and every slot other than p = l/2 of an even l has been
\* assigned exactly once.
C25_EverySlotWritten ==
    flmp.pc = "done" =>
        /\ \A l \in 0..flmp.l_max : \A m \in 0..l : \A p \in 0..l :
              /\ SlotWritten(flmp.wF, l, m, p)
              /\ flmp.F[lmp_idx(l, m, p)] # FUninit
              /\ flmp.compute_derivatives =>
                    /\ SlotWritten(flmp.wdF, l, m, p)
                    /\ flmp.dF[lmp_idx(l, m, p)] # FUninit
        /\ \A idx \in DOMAIN flmp.F :
              \E l \in 0..flmp.l_max : \E m \in 0..l : \E p \in 0..l :
                  idx = lmp_idx(l, m, p)

C25_Witness ==
    /\ flmp.pc = "done" /\ flmp.l_max = 3 /\ flmp.compute_derivatives
    /\ flmp.wF[lmp_idx(2, 1, 1)] = 3 /\ flmp.wdF[lmp_idx(2, 1, 1)] = 3
    /\ flmp.wF[lmp_idx(2, 1, 0)] = 1 /\ flmp.wdF[lmp_idx(3, 3, 3)] = 1

\* Every entry of an array of (l_max+1)(l_max+2)/2 entries with write counts
\* w was assigned exactly once
EachWrittenOnce(w) ==
    /\ DOMAIN w = 0..(tri_size(plm.l_max) - 1)
    /\ \A l \in 0..plm.l_max : \A m \in 0..l : w[lm_idx(l, m)] = 1

\* C26: when the Plm constructor returns, every entry of _Plm has been
\* assigned exactly once (by the seed, the sectorial pass or the column pass),
\* and so has every entry of _dPlm and of _ddPlm when that array was
\* allocated; during the construction no entry is assigned a second time.
C26_EveryEntryWrittenOnce ==
    plm.pc # "none" =>
        /\ \A idx \in DOMAIN plm.wP : plm.wP[idx] <= 1
        /\ \A idx \in DOMAIN plm.wdP : plm.wdP[idx] <= 1
        /\ \A idx \in DOMAIN plm.wddP : plm.wddP[idx] <= 1
        /\ PhaseRank(plm.pc) > PhaseRank("col") =>
              /\ EachWrittenOnce(plm.wP)
              /\ \A idx \in DOMAIN plm.P : plm.P[idx] # Uninit
        /\ plm.pc = "done" =>
              /\ plm.dP # Null =>
                    /\ EachWrittenOnce(plm.wdP)
                    /\ \A idx \in DOMAIN plm.dP : plm.dP[idx] # Uninit
              /\ plm.ddP # Null =>
                    /\ EachWrittenOnce(plm.wddP)
                    /\ \A idx \in DOMAIN plm.ddP : plm.ddP[idx] # Uninit
              /\ plm.derivatives => plm.dP # Null
              /\ (plm.derivatives /\ plm.second_derivatives) => plm.ddP # Null

C26_Witness ==
    /\ plm.pc = "done" /\ plm.l_max = 3
    /\ plm.dP # Null /\ plm.ddP # Null
    /\ plm.wP = [i \in 0..9 |-> 1]
    /\ plm.wdP = [i \in 0..9 |-> 1]
    /\ plm.wddP = [i \in 0..9 |-> 1]

\* The caller's operations with default construction among them
NextMemDefault ==
    Construct \/ DefaultConstruct \/ CopyConstruct \/ Assign \/ Destroy

SpecMemDefault == InitMem /\ [][NextMemDefault]_vars

\* The array at p, when there is one, has n entries
HasSize(p, n) == p # NullPtr => DOMAIN mem.heap[p].data = 0..(n - 1)

\* C27 as stated: in every state reachable by construct, default-construct,
\* copy-construct and assign operations, each non-null array of each live
\* instance has the number of entries the instance's current l_max
\* determines: (l_max+1)(l_max+2)/2 for Nlm and Plm (the member _Nlm of a Plm
\* by its own l_max), l_idx(l_max+1) for Flmp.
C27_AsStated ==
    mem.cls # "none" =>
        \A x \in Slots :
            mem.objs[x].live =>
                LET o == mem.objs[x].o
                IN  CASE mem.cls = "Nlm" ->
                           HasSize(o.arr, tri_size(o.l_max))
                      [] mem.cls = "Plm" ->
                           /\ HasSize(o.P, tri_size(o.l_max))
                           /\ HasSize(o.dP, tri_size(o.l_max))
                           /\ HasSize(o.ddP, tri_size(o.l_max))
                           /\ HasSize(o.N.arr, tri_size(o.N.l_max))
                      [] mem.cls = "Flmp" ->
                           /\ HasSize(o.F, l_idx(o.l_max + 1))
                           /\ HasSize(o.dF, l_idx(o.l_max + 1))

\* The call recorded in ret read the derivative array
TouchesDerivatives == \E rd \in ret.reads : rd[1] = "_dFlmp"

\* C28 as stated: get_Flmk_star(l,m,k) reads the derivative array whenever
\* |k-1| <= l or |k+1| <= l, so on an engine without derivatives it reads
\* through the null _dFlmp for every k with |k| <= l+1, and only for
\* |k| >= l+2 does it return without touching any storage.
C28_AsStated ==
    ret.fn = "get_Flmk_star" =>
        /\ (Abs(ret.k - 1) <= ret.l \/ Abs(ret.k + 1) <= ret.l) =>
              TouchesDerivatives
        /\ (flmp.dF = Null /\ Abs(ret.k) <= ret.l + 1) =>
              ReadsNull(ret.reads)
        /\ ret.reads = {} => Abs(ret.k) >= ret.l + 2

\* C28 amended: get_Flmk_star(l,m,k) reads the derivative array exactly when
\* |k-1| <= l or |k+1| <= l, which is every k with |k| <= l+1 except k = 0
\* at l = 0; on an engine without derivatives it reads through the null
\* _dFlmp in exactly those calls.  For |k| >= l+2, and for l = 0, k = 0, all
\* four terms are the boundary value 0 and no storage is touched.
C28_StarReads ==
    ret.fn = "get_Flmk_star" =>
        LET near == Abs(ret.k - 1) <= ret.l \/ Abs(ret.k + 1) <= ret.l
        IN  /\ near <=> TouchesDerivatives
            /\ near <=> (Abs(ret.k) <= ret.l + 1 /\ ~(ret.l = 0 /\ ret.k = 0))
            /\ flmp.dF = Null => (near <=> ReadsNull(ret.reads))
            /\ ~near =>
                  /\ ret.reads = {}
                  /\ ret.val.F1 = FZero /\ ret.val.F2 = FZero
                  /\ ret.val.d1 = FZero /\ ret.val.d2 = FZero
            /\ ret.val = FFault => ReadsNull(ret.reads)

C28_Witness ==
    /\ ret.fn = "get_Flmk_star" /\ flmp.dF = Null
    /\ ret.l = 2 /\ ret.m = 1 /\ ret.k = 3
    /\ ret.reads = {<<"_Flmp", lmp_idx(2, 1, 0)>>, <<"_dFlmp", lmp_idx(2, 1, 0)>>}
    /\ ReadsNull(ret.reads)
    /\ ret.val = FFault

\* C29: a call get_Flmk(l,m,k) or get_dFlmk(l,m,k) with |k| <= l and l - k
\* odd does not return the boundary value 0: (l - k) / 2 truncates, so the
\* call reads the slot p = (l - k - 1) / 2 and returns what the same getter
\* returns for k + 1.
C29_OddParityTruncates ==
    (/\ ret.fn \in {"get_Flmk", "get_dFlmk"}
     /\ Abs(ret.k) <= ret.l
     /\ CMod(ret.l - ret.k, 2) # 0) =>
        LET arr == IF ret.fn = "get_Flmk" THEN "_Flmp" ELSE "_dFlmp"
            p == CDiv(ret.l - ret.k - 1, 2)
        IN  /\ ret.val # FZero
            /\ p \in 0..ret.l
            /\ ret.reads = {<<arr, lmp_idx(ret.l, ret.m, p)>>}
            /\ ret.val = FlmpGet(ret.fn, ret.l, ret.m, ret.k + 1).val
            /\ ret.val = FlmpGet(IF ret.fn = "get_Flmk" THEN "get_Flmp"
                                 ELSE "get_dFlmp", ret.l, ret.m, p).val
            /\ ret.val # FUninit /\ ret.val # FGarbage

C29_Witness ==
    /\ ret.fn = "get_dFlmk" /\ ret.l = 3 /\ ret.m = 2 /\ ret.k = -2
    /\ ret.reads = {<<"_dFlmp", lmp_idx(3, 2, 2)>>}
    /\ ret.val = get_dFlmk(3, 2, -1).val
    /\ ret.val = Sym(-1, TRUE, "C+S", "dF", 3, 2, 1)

(***************************************************************************)
(* int arithmetic.  The index functions and the radicands of b and f are   *)
(* evaluated in int, a signed 32-bit type; a result outside its range is   *)
(* undefined, which the value [ok |-> FALSE] stands for: whatever follows  *)
(* from it is not a value of the expression any more.                      *)
(***************************************************************************)
\* Largest maximum degree the products are evaluated for
MaxLInt == 1000

\* INT_MAX of a 32-bit int
IntMax == 2147483647

IntVal(n) == [ok |-> TRUE, v |-> n]

IntOverflow == [ok |-> FALSE, v |-> 0]

\* x * y in int
IntMul(x, y) ==
    IF x.ok /\ y.ok /\ (x.v = 0 \/ Abs(y.v) <= IntMax \div Abs(x.v))
    THEN IntVal(x.v * y.v) ELSE IntOverflow

\* x + y in int, for operands that are not negative
IntAdd(x, y) ==
    IF x.ok /\ y.ok /\ x.v <= IntMax - y.v
    THEN IntVal(x.v + y.v) ELSE IntOverflow

\* x / y in int
IntDiv(x, y) ==
    IF x.ok /\ y.ok /\ y.v # 0 THEN IntVal(CDiv(x.v, y.v)) ELSE IntOverflow

\* (l + 1) * (l * (2 * l + 1)) in lmp_idx
LmpProduct(l) == IntMul(IntVal(l + 1), IntMul(IntVal(l), IntVal(2 * l + 1)))

\* lmp_idx(l, m, p), every operation in int
LmpIndex(l, m, p) ==
    IntAdd(IntAdd(IntDiv(LmpProduct(l), IntVal(6)),
                  IntMul(IntVal(m), IntVal(l + 1))),
           IntVal(p))

\* l * (l + 1) * (2 * l + 1) in l_idx
LProduct(l) == IntMul(IntMul(IntVal(l), IntVal(l + 1)), IntVal(2 * l + 1))

\* (l_max + 1) * (l_max + 2) in the sizes of the triangular arrays
SizeProduct(l_max) == IntMul(IntVal(l_max + 1), IntVal(l_max + 2))

\* l * (l + 1) in lm_idx
LmProduct(l) == IntMul(IntVal(l), IntVal(l + 1))

\* (l - m) * (l + m), the divisor of coefficient a
ADivisor(l, m) == IntMul(IntVal(l - m), IntVal(l + m))

\* (l - m) * (l + m) * (2 * l - 3), the divisor of coefficient b; it is
\* evaluated for m < l, l - m != 1 only
BDivisor(l, m) == IntMul(ADivisor(l, m), IntVal(2 * l - 3))

\* A radicand of f with the squares added
FProduct_wrong(l, m) ==
    IntMul(IntAdd(IntMul(IntVal(l), IntVal(l)), IntMul(IntVal(m), IntVal(m))),
           IntVal(2 * l + 1))

\* (l * l - m * m) * (2 * l + 1), the int factor of the radicand of f
FProduct(l, m) ==
    LET ll == IntMul(IntVal(l), IntVal(l))
        mm == IntMul(IntVal(m), IntVal(m))
    IN  IntMul(IF ll.ok /\ mm.ok THEN IntVal(ll.v - mm.v) ELSE IntOverflow,
               IntVal(2 * l + 1))

\* An engine of maximum degree l_max is about to evaluate its products
InitInt ==
    /\ \E L \in 0..MaxLInt :
          test = [TestIdle EXCEPT !.kind = "int", !.l_max = L]
    /\ nlm = NlmIdle
    /\ plm = PlmIdle
    /\ flmp = FlmpIdle
    /\ ret = RetNone
    /\ mem = MemIdle

\* The int products of one engine for one order m of its highest degree
\* l = l_max (a product of a pair (l, m) is the same in every engine with
\* l_max >= l): the sizes, the index of the first and of the last slot of
\* (l, m), and the int factors of a, b and f.
IntEvaluate ==
    /\ test.kind = "int" /\ test.i = 0
    /\ \E m \in 0..test.l_max :
          LET L == test.l_max  l == test.l_max
          IN  test' = [test EXCEPT !.i = 1, !.l = l, !.m = m, !.p = l,
                         !.got = [lmp  |-> LmpProduct(l),
                                  idx0 |-> LmpIndex(l, m, 0),
                                  idx  |-> LmpIndex(l, m, l),
                                  lidx |-> LProduct(L + 1),
                                  size |-> SizeProduct(L),
                                  lm   |-> IntAdd(IntDiv(LmProduct(l), IntVal(2)),
                                                  IntVal(m)),
                                  a    |-> IF m < l THEN ADivisor(l, m)
                                           ELSE IntVal(0),
                                  b    |-> IF m < l /\ l - m # 1
                                           THEN BDivisor(l, m) ELSE IntVal(0),
                                  f    |-> FProduct(l, m)]]
    /\ UNCHANGED <<nlm, plm, flmp, ret, mem>>

NextInt == IntEvaluate

SpecInt == InitInt /\ [][NextInt]_vars

\* C30: for every l_max in 0..1000 and every valid (l, m, p), each int
\* product is at most INT_MAX, so no int operation overflows:
\* (l+1)*(l*(2l+1)) and the index built from it in lmp_idx,
\* l*(l+1)*(2l+1) in l_idx at l_max+1, (l_max+1)*(l_max+2) in the table
\* sizes, l*(l+1) in lm_idx, (l-m)*(l+m) and (l-m)*(l+m)*(2l-3) in the
\* coefficients a and b, and (l*l-m*m)*(2l+1) in the coefficient f; the
\* values are the ones unbounded integers give.
C30_ProductsFitInt ==
    (test.kind = "int" /\ test.i = 1) =>
        LET l == test.l  m == test.m  g == test.got
        IN  /\ \A name \in DOMAIN g : g[name].ok /\ g[name].v <= IntMax
            /\ g.lmp.v = (l + 1) * (l * (2 * l + 1))
            /\ g.idx.v = lmp_idx(l, m, l)
            /\ g.idx.v < l_idx(test.l_max + 1)
            /\ g.lidx.v = 6 * l_idx(test.l_max + 1)
            /\ g.size.v = 2 * tri_size(test.l_max)
            /\ g.lm.v = lm_idx(l, m)
            /\ g.f.v = (l * l - m * m) * (2 * l + 1)
            /\ (m < l /\ l - m # 1) =>
                  g.b.v = (l - m) * (l + m) * (2 * l - 3)

C30_Witness ==
    /\ test.kind = "int" /\ test.i = 1
    /\ test.l_max = 1000 /\ test.l = 1000 /\ test.m = 0
    /\ test.got.lmp = IntVal(2003001000)
    /\ test.got.lidx = IntVal(2009013006)
    /\ test.got.f = IntVal(2001000000)
    /\ test.got.b = IntVal(1997000000)
    /\ test.got.size = IntVal(1003002)

=============================================================================
